---- MODULE Spec2Model ----
(***************************************************************************)
(* Model of the metadata resolution pipeline of organize_papers.py:        *)
(* PaperOrganizer.scan_papers walks the files of a folder and, for each,   *)
(* builds a PaperMetadata record and runs extract_metadata_from_pdf (DOI   *)
(* search, Crossref lookup, embedded PDF metadata, page-text heuristics)   *)
(* and extract_metadata_from_filename.                                     *)
(*                                                                         *)
(* Text contents are abstracted to what each regular-expression routine    *)
(* returns for them; each source of a value uses its own value, so that an *)
(* overwrite by another source is visible.                                 *)
(*                                                                         *)
(* Spec is the pipeline, with text contents abstracted as said above.      *)
(* TextSpec calls the text routines of PaperMetadata on their own          *)
(* (_extract_doi_from_text, _extract_year_from_text, _parse_author_line,   *)
(* _extract_title_from_text), each modelled character by character on      *)
(* texts put together from pieces. ReorgSpec is a run of                   *)
(* reorganize_folders.py: moves are planned, then execute_moves. MainSpec  *)
(* is main of reorganize_folders.py with the five strategies as the code   *)
(* has them, read on file names character by character, run up to twice.   *)
(***************************************************************************)
EXTENDS Integers, Sequences, FiniteSets, TLC

\* ---------------------------------------------------------------- bounds
\* number of files rglob yields in one scan
NumFiles == 2
\* largest page count of a decoded PDF
MaxPages == 4
\* largest number of pieces a text given to a text routine is made of
MaxPieces == 3
\* largest number of moves planned in a run whose strategies are left open
MaxMoves == 2
\* largest number of files of a tree the strategies of main are run on
MaxTree == 2

\* ------------------------------------------------------ program constants
\* number of leading characters of a page searched for a year
YearWindow == 2000
\* the years accepted
YearMin == 1900
YearMax == 2100
\* size below which a file counts as a sync placeholder
PlaceholderSize == 1024
\* number of leading pages searched for a DOI
DoiPages == 3
\* number of authors kept from a registry response
AuthorCap == 6
\* authors[:6] of an author line
ParsedAuthorCap == 6
\* lengths between which the remainder of an arXiv line is a title
TitleMin == 20
TitleMax == 200
\* the years reorganize_by_year files under: start_year, and the year of
\* the run, datetime.now().year
StartYear == 2000
ThisYear == 2026
\* more letters than this make the first part of a stem an author
AuthorMin == 2
\* min_papers: a folder with fewer files is consolidated
MinPapers == 3
\* max_depth: a file deeper than this is flattened
MaxDepth == 2

\* ------------------------------------------------------------ value space
\* Python None
None == "<None>"
\* stat() raised
StatError == -1
\* st_size values around the placeholder threshold
Sizes == {0, PlaceholderSize - 1, PlaceholderSize, StatError}

\* values by source
RegistryTitle == "Registry Title"
RegistryJournal == "Registry Journal"
RegistryUrl == "https://doi.org/registry"
EmbeddedTitle == "Embedded Title"
EmbeddedAuthor == "Embedded Author"
EmbeddedYear == "2008"
TextTitle1 == "Page One Title"
TextTitle2 == "Page Two Title"
TextAuthor1 == "Page One Author"
TextAuthor2 == "Page Two Author"
TextYear == "2013"
FilenameYear == "2015"
FilenameAuthor == "Johnson"

\* the DOI _extract_doi_from_text returns for the text of page p
DoiOfPage(p) == IF p = 0 THEN "10.1000/p0" ELSE IF p = 1 THEN "10.1000/p1"
                ELSE IF p = 2 THEN "10.1000/p2" ELSE "10.1000/p3plus"

\* Python truthiness of an optional string
Truthy(v) == v /= None /\ v /= ""

Min(a, b) == IF a < b THEN a ELSE b

\* ------------------------------------------------------------- characters
\* strings are read character by character, as the re module does
Digits == {"0", "1", "2", "3", "4", "5", "6", "7", "8", "9"}
UpperCase == "ABCDEFGHIJKLMNOPQRSTUVWXYZ"
LowerCase == "abcdefghijklmnopqrstuvwxyz"
Char(s, i) == SubSeq(s, i, i)
Uppers == {Char(UpperCase, k) : k \in 1..Len(UpperCase)}
Lowers == {Char(LowerCase, k) : k \in 1..Len(LowerCase)}
\* \s
Spaces == {" ", "\t", "\n", "\r", "\f"}
\* \w
WordChars == Uppers \cup Lowers \cup Digits \cup {"_"}

\* str.lower() of one character
LowerChar(c) ==
  IF c \in Uppers
  THEN Char(LowerCase, CHOOSE k \in 1..Len(UpperCase) : Char(UpperCase, k) = c)
  ELSE c

RECURSIVE ToLower(_)
\* str.lower()
ToLower(s) ==
  IF s = "" THEN ""
  ELSE IF Len(s) = 1 THEN LowerChar(s)
  ELSE ToLower(SubSeq(s, 1, Len(s) \div 2)) \o ToLower(SubSeq(s, Len(s) \div 2 + 1, Len(s)))

\* the literal lit stands in s at position i
At(s, i, lit) == i >= 1 /\ i + Len(lit) - 1 <= Len(s) /\ SubSeq(s, i, i + Len(lit) - 1) = lit

RECURSIVE AtIgnoreCase(_, _, _)
\* the same under re.IGNORECASE, lit in lower case
AtIgnoreCase(s, i, lit) ==
  \/ lit = ""
  \/ /\ i >= 1 /\ i <= Len(s)
     /\ LowerChar(Char(s, i)) = Head(lit)
     /\ AtIgnoreCase(s, i + 1, Tail(lit))

\* lit in s
Contains(s, lit) == \E i \in 1..Len(s) : At(s, i, lit)

\* the least element of a set of positions, 0 for the empty set (no match)
First(positions) ==
  IF positions = {} THEN 0 ELSE CHOOSE i \in positions : \A j \in positions : i <= j

\* the greatest element of a set of positions, 0 for the empty set
Last(positions) ==
  IF positions = {} THEN 0 ELSE CHOOSE i \in positions : \A j \in positions : i >= j

\* a position found, or one past the end of s when none was (0)
OrEnd(position, s) == IF position = 0 THEN Len(s) + 1 ELSE position

\* one past the longest run, from position i, of characters of class
RunIn(s, i, class) == OrEnd(First({j \in i..Len(s) : Char(s, j) \notin class}), s)

\* one past the longest run, from position i, of characters outside class
RunNotIn(s, i, class) == OrEnd(First({j \in i..Len(s) : Char(s, j) \in class}), s)

\* \d{4} at position i
FourDigitsAt(s, i) ==
  i >= 1 /\ i + 3 <= Len(s) /\ \A k \in i..(i + 3) : Char(s, k) \in Digits

\* str.strip()
RECURSIVE Strip(_)
Strip(s) ==
  IF s = "" THEN ""
  ELSE IF Head(s) \in Spaces THEN Strip(Tail(s))
  ELSE IF Char(s, Len(s)) \in Spaces THEN Strip(SubSeq(s, 1, Len(s) - 1))
  ELSE s

RECURSIVE JoinWith(_, _)
\* sep.join(strings)
JoinWith(strings, sep) ==
  IF strings = <<>> THEN ""
  ELSE IF Len(strings) = 1 THEN strings[1]
  ELSE strings[1] \o sep \o JoinWith(Tail(strings), sep)

VARIABLES
  PDF_SUPPORT,       \* module flag: PyPDF2 imported
  REQUESTS_SUPPORT,  \* module flag: requests imported
  pc,                \* position in scan_papers / extract_metadata_from_pdf
  next_file,         \* index (1-based) of the next file of the rglob order
  papers,            \* PaperOrganizer.papers
  errors_printed,    \* "Error extracting PDF metadata" lines printed so far
  filename,          \* index of the file the current record was built for
  file_exists,       \* filepath.exists()
  st_size,           \* filepath.stat().st_size
  is_downloaded,     \* PaperMetadata.is_downloaded
  stem,              \* filepath.stem, once extract_metadata_from_filename read it
  title, author, year, journal, url,   \* PaperMetadata fields
  num_pages,         \* len(pdf.pages)
  page_num,          \* loop variable of the DOI search
  doi,               \* local doi of extract_metadata_from_pdf
  examined,          \* pages whose text the DOI loop searched, with the result
  consulted,         \* calls of the text routines for this document, with the result
  fetch_result,      \* value returned by _fetch_metadata_from_crossref
  response,          \* what the registry answered to this document's request
  requested,         \* DOIs requested from the registry for this document
  sleeps,            \* time.sleep(1) calls for this document
  stages,            \* stages entered for this document, in order
  routine,           \* the text routine called on its own ("none": no call)
  argument,          \* the text, or the lines, it was called with
  returned,          \* what it returned
  dry_run,           \* FolderReorganizer.dry_run
  moves,             \* FolderReorganizer.moves
  files,             \* the files under root_path
  dirs,              \* the folders under root_path
  rpc,               \* position in main / execute_moves of reorganize_folders.py
  answer,            \* the line typed at the confirmation prompt
  move_num,          \* index of the move the execution loop is at
  moved_count,       \* moved_count of execute_moves
  error_count,       \* error_count of execute_moves
  args,              \* the strategies named on the command line
  listing,           \* the files in the order rglob gives them in this run
  earlier            \* what the run before this one did to the tree

organizer == <<PDF_SUPPORT, REQUESTS_SUPPORT, pc, next_file, papers, errors_printed,
               filename, file_exists, st_size, is_downloaded, stem, title, author,
               year, journal, url, num_pages, page_num, doi, examined, consulted,
               fetch_result, response, requested, sleeps, stages>>

text_call == <<routine, argument, returned>>
command == <<args, listing, earlier>>
reorganizer == <<dry_run, moves, files, dirs, rpc, answer, move_num, moved_count,
                 error_count, command>>
vars == <<organizer, text_call, reorganizer>>

\* what a run of organize_papers.py leaves alone
elsewhere == <<text_call, reorganizer>>

flags == <<PDF_SUPPORT, REQUESTS_SUPPORT>>
scan == <<next_file, papers, errors_printed>>
file == <<filename, file_exists, st_size, is_downloaded, stem>>
fields == <<title, author, year, journal, url>>
network == <<fetch_result, response, requested, sleeps>>
pdf == <<num_pages, page_num, doi, examined>>

\* ------------------------------------------------------ registry response
\* A response of the registry. status: "200", "429", "404" (any other status)
\* or "exc" (requests raised: connection error, timeout). body, for a 200:
\* "badjson" (response.json() raises), "nomsg" (no 'message' key) or "msg".
\* The fields of message are given by shape:
\*   title, container: "absent" (missing or falsy), "list", "str", "other"
\*   author: the list of entries (<<>>: missing or empty); an entry is
\*           [obj, given, family], obj = FALSE for an entry that is no object
\*   print, online, issued: "absent" (missing or falsy), "noparts" (date-parts
\*           missing, [] or [[]]), "year" ([[y, ...]]), "null" ([[null]], which
\*           the registry sends for an unknown date), "bad" (date-parts whose
\*           first element is no list)
\*   url: "URL" (URL key), "link" (link[0] has URL), "link_nourl" (link[0]
\*           has none), "link_notobj" (link[0] is no object), "absent"
Person(g, f) == [obj |-> TRUE, given |-> g, family |-> f]
NotAnObject == [obj |-> FALSE, given |-> "", family |-> ""]
AuthorLists ==
  { <<>>,
    <<Person("Ada", "Lovelace")>>,
    <<Person("", "Turing")>>,
    <<Person("Kurt", "")>>,
    <<NotAnObject>>,
    <<Person("Ada", "Lovelace"), Person("", "Turing")>>,
    <<Person("Kurt", ""), Person("Ada", "Lovelace")>>,
    <<Person("Ada", "Lovelace"), NotAnObject>> }
TextShapes == {"absent", "list", "str", "other"}
DateShapes == {"absent", "noparts", "year", "null", "bad"}
UrlShapes == {"absent", "URL", "link", "link_nourl", "link_notobj"}

EmptyMessage ==
  [title |-> "absent", author |-> <<>>, print |-> "absent", online |-> "absent",
   issued |-> "absent", container |-> "absent", url |-> "absent"]
Messages ==
  [title : TextShapes, author : AuthorLists, print : DateShapes,
   online : DateShapes, issued : DateShapes, container : TextShapes \ {"other"},
   url : UrlShapes]
Responses ==
  { [status |-> s, body |-> "none", msg |-> EmptyMessage] : s \in {"429", "404", "exc"} }
  \cup { [status |-> "200", body |-> b, msg |-> EmptyMessage] : b \in {"badjson", "nomsg"} }
  \cup { [status |-> "200", body |-> "msg", msg |-> m] : m \in Messages }

\* str(date_parts[0][0]) of each date field
RegistryPrintYear == "2005"
RegistryOnlineYear == "2004"
RegistryIssuedYear == "2003"
\* str(None)
RegistryNullYear == "None"
RegistryLinkUrl == "https://link.registry/fulltext"

RECURSIVE Join(_)
\* ', '.join(names)
Join(names) ==
  IF names = <<>> THEN ""
  ELSE IF Len(names) = 1 THEN names[1]
  ELSE names[1] \o ", " \o Join(Tail(names))

\* names[:] whatever n
take_all(names, n) == names

\* names[:n]
Take(names, n) == SubSeq(names, 1, Min(n, Len(names)))

\* ------------------------------------------- _fetch_metadata_from_crossref
\* title block: titles[0] of a list, or the string itself
crossref_title(msg, old) ==
  IF msg.title \in {"list", "str"} THEN RegistryTitle ELSE old

\* author.get(...) raises AttributeError on an entry that is no object
crossref_author_raises(msg) ==
  \E i \in 1..Len(msg.author) : ~msg.author[i].obj

\* "given family", or family alone; entries without a family are left out
crossref_format(entry) ==
  IF entry.given /= "" THEN entry.given \o " " \o entry.family ELSE entry.family

RECURSIVE crossref_authors(_)
crossref_authors(entries) ==
  IF entries = <<>> THEN <<>>
  ELSE IF Head(entries).family /= ""
       THEN <<crossref_format(Head(entries))>> \o crossref_authors(Tail(entries))
       ELSE crossref_authors(Tail(entries))

crossref_author(msg, old) ==
  IF crossref_authors(msg.author) /= <<>>
  THEN Join(Take(crossref_authors(msg.author), AuthorCap))
  ELSE old

\* the if/elif chain picks the first date field that is present and truthy
crossref_date_field(msg) ==
  IF msg.print /= "absent" THEN "print"
  ELSE IF msg.online /= "absent" THEN "online"
  ELSE IF msg.issued /= "absent" THEN "issued"
  ELSE "none"

crossref_date_shape(msg) ==
  CASE crossref_date_field(msg) = "print" -> msg.print
    [] crossref_date_field(msg) = "online" -> msg.online
    [] crossref_date_field(msg) = "issued" -> msg.issued
    [] OTHER -> "absent"

\* len(date_parts[0]) raises TypeError when date_parts[0] is no list
crossref_year_raises(msg) == crossref_date_shape(msg) = "bad"

crossref_year(msg, old) ==
  IF crossref_date_shape(msg) = "year"
  THEN CASE crossref_date_field(msg) = "print" -> RegistryPrintYear
         [] crossref_date_field(msg) = "online" -> RegistryOnlineYear
         [] OTHER -> RegistryIssuedYear
  ELSE IF crossref_date_shape(msg) = "null" THEN RegistryNullYear
  ELSE old

crossref_journal(msg, old) ==
  IF msg.container \in {"list", "str"} THEN RegistryJournal ELSE old

\* links[0].get raises AttributeError when links[0] is no object
crossref_url_raises(msg) == msg.url = "link_notobj"

crossref_url(msg, old) ==
  CASE msg.url = "URL" -> RegistryUrl
    [] msg.url = "link" -> RegistryLinkUrl
    [] msg.url = "link_nourl" -> ""
    [] OTHER -> old

\* what the record looks like when an exception leaves the 200 branch, by the
\* block that raised: the assignments of the earlier blocks stay
crossref_partial(msg, rec, upto) ==
  [ok |-> FALSE,
   title |-> crossref_title(msg, rec.title),
   author |-> IF upto \in {"year", "url"} THEN crossref_author(msg, rec.author)
              ELSE rec.author,
   year |-> IF upto = "url" THEN crossref_year(msg, rec.year) ELSE rec.year,
   journal |-> IF upto = "url" THEN crossref_journal(msg, rec.journal)
               ELSE rec.journal,
   url |-> rec.url]

\* the record with no field touched
crossref_failure(rec) ==
  [ok |-> FALSE, title |-> rec.title, author |-> rec.author, year |-> rec.year,
   journal |-> rec.journal, url |-> rec.url]

\* the 200 branch with a message: the five blocks in order, return True
crossref_message(msg, rec) ==
  IF crossref_author_raises(msg) THEN crossref_partial(msg, rec, "author")
  ELSE IF crossref_year_raises(msg) THEN crossref_partial(msg, rec, "year")
  ELSE IF crossref_url_raises(msg) THEN crossref_partial(msg, rec, "url")
  ELSE [ok |-> TRUE,
        title |-> crossref_title(msg, rec.title),
        author |-> crossref_author(msg, rec.author),
        year |-> crossref_year(msg, rec.year),
        journal |-> crossref_journal(msg, rec.journal),
        url |-> crossref_url(msg, rec.url)]

\* a 429 answered without the wait
crossref_sleeps_never(status) == 0

\* number of time.sleep(1) calls the status causes
crossref_sleeps(status) == IF status = "429" THEN 1 ELSE 0

\* the body parsed whatever the status
fetch_metadata_ignoring_status(resp, rec) ==
  IF resp.status = "exc" THEN crossref_failure(rec)
  ELSE IF resp.body = "badjson" THEN crossref_failure(rec)
  ELSE crossref_message(resp.msg, rec)

\* _fetch_metadata_from_crossref: the value returned (ok) and the fields after
fetch_metadata_from_crossref(resp, rec) ==
  IF resp.status = "exc" THEN crossref_failure(rec)
  ELSE IF resp.status = "200"
       THEN IF resp.body = "msg" THEN crossref_message(resp.msg, rec)
            ELSE crossref_failure(rec)
       ELSE crossref_failure(rec)

\* the fields a response carries in a shape the resolver reads
Provided(resp) ==
  IF resp.status /= "200" \/ resp.body /= "msg" THEN {}
  ELSE {f \in {"title"} : resp.msg.title \in {"list", "str"}}
       \cup {f \in {"author"} :
                 /\ \A i \in 1..Len(resp.msg.author) : resp.msg.author[i].obj
                 /\ \E i \in 1..Len(resp.msg.author) : resp.msg.author[i].family /= ""}
       \cup {f \in {"year"} :
                 {"year", "null"} \cap {resp.msg.print, resp.msg.online, resp.msg.issued} /= {}}
       \cup {f \in {"journal"} : resp.msg.container \in {"list", "str"}}
       \cup {f \in {"url"} : resp.msg.url \in {"URL", "link", "link_nourl"}}

\* what is kept of a response once the resolver has returned
Summary(resp) ==
  [status |-> resp.status, message |-> resp.body = "msg", provided |-> Provided(resp)]
NoResponse == [status |-> "none", message |-> FALSE, provided |-> {}]

\* The resolver reads none of the record's fields, it only assigns them: what
\* it does for a response is the same whatever the record held. Kept marks a
\* field it did not assign.
Kept == "<kept>"
Untouched ==
  [title |-> Kept, author |-> Kept, year |-> Kept, journal |-> Kept, url |-> Kept]

\* for every response of the registry: the assignments and the value
\* returned, the waits, and what is kept of the response
RegistryOutcomes ==
  { [result |-> fetch_metadata_from_crossref(resp, Untouched),
     sleeps |-> crossref_sleeps(resp.status),
     response |-> Summary(resp)] : resp \in Responses }

\* the field after the resolver: the value assigned, or the one it had
Assigned(new, old) == IF new = Kept THEN old ELSE new

\* the response object ends with the resolver: once its caller has tested
\* the result, a failed request is remembered by its status alone
Outcome(summary, ok) ==
  IF ok THEN summary ELSE [status |-> summary.status, message |-> FALSE, provided |-> {}]

\* --------------------------------------------------- _extract_doi_from_text
\* (10\.\d+/[^\s\)]+) at position j, the digits ending before position k:
\* one past the end of the group, 0 when the group does not stand there
doi_body_from(s, j, k) ==
  IF k > j + 3 /\ At(s, k, "/") /\ RunNotIn(s, k + 1, Spaces \cup {")"}) > k + 1
  THEN RunNotIn(s, k + 1, Spaces \cup {")"})
  ELSE 0

\* one past the end of (10\.\d+/[^\s\)]+) at position j, 0 when it does not
\* stand there
doi_body_end(s, j) ==
  IF At(s, j, "10.") THEN doi_body_from(s, j, RunIn(s, j + 3, Digits)) ELSE 0

\* the group at position j after a run of [:\s] that began at position i
doi_after_label(s, i, j) == IF j > i /\ doi_body_end(s, j) > 0 THEN j ELSE 0

\* where group 1 starts when the pattern matches at position i, 0 when it
\* does not match there. The patterns, under re.IGNORECASE:
\*   "url"    doi\.org/(10\.\d+/[^\s\)]+)
\*   "label"  DOI[:\s]+(10\.\d+/[^\s\)]+)
\*   "bare"   \b(10\.\d+/[^\s\)]+)
doi_group_start(pattern, s, i) ==
  CASE pattern = "url" ->
         IF AtIgnoreCase(s, i, "doi.org/") /\ doi_body_end(s, i + 8) > 0
         THEN i + 8 ELSE 0
    [] pattern = "label" ->
         IF AtIgnoreCase(s, i, "doi")
         THEN doi_after_label(s, i + 3, RunIn(s, i + 3, {":"} \cup Spaces))
         ELSE 0
    [] OTHER ->
         IF /\ At(s, i, "10.")
            /\ i = 1 \/ Char(s, i - 1) \notin WordChars
            /\ doi_body_end(s, i) > 0
         THEN i ELSE 0

\* group 1 of the match whose group starts at position j, None for j = 0
doi_group(s, j) == IF j = 0 THEN None ELSE SubSeq(s, j, doi_body_end(s, j) - 1)

\* the group start of the match at position i, 0 for i = 0
doi_match_at(pattern, s, i) == IF i = 0 THEN 0 ELSE doi_group_start(pattern, s, i)

\* re.search(pattern, text, re.IGNORECASE): group 1 of the leftmost match,
\* None without a match
doi_search(pattern, s) ==
  doi_group(s, doi_match_at(pattern, s,
                First({i \in 1..Len(s) : doi_group_start(pattern, s, i) > 0})))

\* the DOI the loop returns when the pattern gave found, else what the
\* patterns after it give
doi_or_next(found, rest) == IF found /= None THEN found ELSE rest

\* re.sub(r'[.,;:]+$', '', doi)
doi_clean(d) == SubSeq(d, 1, Last({k \in 0..Len(d) : k = 0 \/ Char(d, k) \notin {".", ",", ";", ":"}}))

\* doi = match.group(1).strip(), then without its trailing punctuation
doi_found(group) == IF group = None THEN None ELSE doi_clean(Strip(group))

\* the patterns with the bare token tried first
DoiPatternsBareFirst == <<"bare", "label", "url">>

\* the list patterns, in the order of the loop
DoiPatterns == <<"url", "label", "bare">>

RECURSIVE doi_first_match(_, _)
\* for pattern in patterns: the first pattern that matches gives the DOI
doi_first_match(patterns, s) ==
  IF patterns = <<>> THEN None
  ELSE doi_or_next(doi_found(doi_search(Head(patterns), s)),
                   doi_first_match(Tail(patterns), s))

\* _extract_doi_from_text
extract_doi_from_text(text) ==
  IF text = None \/ text = "" THEN None ELSE doi_first_match(DoiPatterns, text)

\* -------------------------------------------------- _extract_year_from_text
\* text[:n]
Prefix(s, n) == SubSeq(s, 1, Min(n, Len(s)))

\* int() of one decimal digit
DigitValue(c) == CHOOSE n \in 0..9 : Char("0123456789", n + 1) = c

RECURSIVE ToInt(_)
\* int() of a string of decimal digits
ToInt(s) == IF s = "" THEN 0 ELSE 10 * ToInt(SubSeq(s, 1, Len(s) - 1)) + DigitValue(Char(s, Len(s)))

\* \(.*?(\d{4}).*?\) from an opening parenthesis at position i: the dot stops
\* at a newline, so the match lies before position line_end; the lazy .*?
\* takes the first four digits, at position j, and the first closing
\* parenthesis after them: its position, 0 without a match
paren_close(s, j, line_end) ==
  IF j = 0 THEN 0 ELSE First({e \in (j + 4)..(line_end - 1) : Char(s, e) = ")"})

\* position of the digits of the match from position i, 0 without a match
paren_digits(s, i, line_end) ==
  First({j \in (i + 1)..(line_end - 4) :
           FourDigitsAt(s, j) /\ paren_close(s, j, line_end) > 0})

\* whether the pattern matches from position i
paren_match_at(s, i) ==
  Char(s, i) = "(" /\ paren_digits(s, i, RunNotIn(s, i + 1, {"\n"})) > 0

RECURSIVE paren_last_from(_, _, _)
\* matches[-1] of re.findall for the pattern in parentheses: findall goes on
\* after the end of each match; i is the leftmost match at or after from
paren_last_after(s, i, last) ==
  IF i = 0 THEN last
  ELSE paren_last_from(
         s,
         paren_close(s, paren_digits(s, i, RunNotIn(s, i + 1, {"\n"})),
                     RunNotIn(s, i + 1, {"\n"})) + 1,
         SubSeq(s, paren_digits(s, i, RunNotIn(s, i + 1, {"\n"})),
                paren_digits(s, i, RunNotIn(s, i + 1, {"\n"})) + 3))
paren_last_from(s, from, last) ==
  paren_last_after(s, First({i \in from..Len(s) : paren_match_at(s, i)}), last)

\* \b(19|20)\d{2}\b at position i
bare_year_at(s, i) ==
  /\ At(s, i, "19") \/ At(s, i, "20")
  /\ i + 3 <= Len(s) /\ Char(s, i + 2) \in Digits /\ Char(s, i + 3) \in Digits
  /\ i = 1 \/ Char(s, i - 1) \notin WordChars
  /\ i + 3 = Len(s) \/ Char(s, i + 4) \notin WordChars

\* matches[-1] of re.findall for the bare pattern: with one group in the
\* pattern, findall gives the group, (19|20), of each match
bare_last_group(s, i) == IF i = 0 THEN None ELSE SubSeq(s, i, i + 1)
bare_last(s) == bare_last_group(s, Last({i \in 1..Len(s) : bare_year_at(s, i)}))

\* if 1900 <= int(year) <= 2100: return year; else the next pattern
year_or_next(candidate, rest) ==
  IF candidate /= None /\ YearMin <= ToInt(candidate) /\ ToInt(candidate) <= YearMax
  THEN candidate ELSE rest

\* the two patterns over the window, in the order of the loop
year_from_window(s) == year_or_next(paren_last_from(s, 1, None), year_or_next(bare_last(s), None))

\* _extract_year_from_text
extract_year_from_text(text) == year_from_window(Prefix(text, YearWindow))

\* ------------------------------------------------------ _parse_author_line
\* re.search(r'http|www\.|\.org|\.com|\.edu|sciencemag|arxiv', line, re.IGNORECASE)
SiteWords == {"http", "www.", ".org", ".com", ".edu", "sciencemag", "arxiv"}
InstitutionWords ==
  {"university", "department", "institute", "laboratory", "center", "centre",
   "college", "school"}
\* r'\.(org|com|edu|net)'
SiteEndings == {".org", ".com", ".edu", ".net"}
ContainsAny(s, words) == \E w \in words : Contains(s, w)

\* r'[A-Z][a-z]+\s+[A-Z]' matches at position i
name_pattern_at(s, i) ==
  /\ Char(s, i) \in Uppers
  /\ i + 1 <= Len(s)
  /\ Char(s, i + 1) \in Lowers
  /\ RunIn(s, RunIn(s, i + 1, Lowers), Spaces) > RunIn(s, i + 1, Lowers)
  /\ RunIn(s, RunIn(s, i + 1, Lowers), Spaces) <= Len(s)
  /\ Char(s, RunIn(s, RunIn(s, i + 1, Lowers), Spaces)) \in Uppers

\* ',' not in line and not re.search(r'[A-Z][a-z]+\s+[A-Z]', line)
looks_like_author_list(s) ==
  \/ Contains(s, ",")
  \/ \E i \in 1..Len(s) : name_pattern_at(s, i)

\* r',\s*\d+[,\s]*' matches at position i: one past the match, 0 for none
superscript_end(s, i) ==
  IF /\ Char(s, i) = ","
     /\ RunIn(s, i + 1, Spaces) <= Len(s)
     /\ Char(s, RunIn(s, i + 1, Spaces)) \in Digits
  THEN RunIn(s, RunIn(s, RunIn(s, i + 1, Spaces), Digits), Spaces \cup {","})
  ELSE 0

\* r'\*\s*' matches at position i: one past the match, 0 for none
asterisk_end(s, i) == IF Char(s, i) = "*" THEN RunIn(s, i + 1, Spaces) ELSE 0

\* r'\s+and\s+' under re.IGNORECASE matches at position i: one past the
\* match, 0 for none
and_end(s, i) ==
  IF /\ Char(s, i) \in Spaces
     /\ AtIgnoreCase(s, RunIn(s, i, Spaces), "and")
     /\ RunIn(s, i, Spaces) + 3 <= Len(s)
     /\ Char(s, RunIn(s, i, Spaces) + 3) \in Spaces
  THEN RunIn(s, RunIn(s, i, Spaces) + 3, Spaces)
  ELSE 0

\* the end of the match of one of the three patterns at position i
pattern_end(pattern, s, i) ==
  CASE pattern = "superscript" -> superscript_end(s, i)
    [] pattern = "asterisk" -> asterisk_end(s, i)
    [] pattern = "and" -> and_end(s, i)

RECURSIVE sub_from(_, _, _, _)
\* re.sub(pattern, repl, s), for what is left of s from position i: each
\* leftmost match is replaced and the search goes on after it
sub_from(pattern, repl, s, i) ==
  IF i > Len(s) THEN ""
  ELSE IF pattern_end(pattern, s, i) > 0
  THEN repl \o sub_from(pattern, repl, s, pattern_end(pattern, s, i))
  ELSE Char(s, i) \o sub_from(pattern, repl, s, i + 1)

\* the three substitutions that make author_line from line
author_line_of(line) ==
  sub_from("and", ", ", sub_from("asterisk", "", sub_from("superscript", ", ", line, 1), 1), 1)

RECURSIVE Split(_, _)
\* s.split(c)
Split(s, c) ==
  IF First({i \in 1..Len(s) : Char(s, i) = c}) = 0 THEN <<s>>
  ELSE <<SubSeq(s, 1, First({i \in 1..Len(s) : Char(s, i) = c}) - 1)>>
       \o Split(SubSeq(s, First({i \in 1..Len(s) : Char(s, i) = c}) + 1, Len(s)), c)

\* str.isdigit()
IsDigit(s) == s /= "" /\ \A i \in 1..Len(s) : Char(s, i) \in Digits

\* re.sub(r'^\d+[,\s]*', '', part)
strip_leading_number(s) ==
  IF s /= "" /\ Head(s) \in Digits
  THEN SubSeq(s, RunIn(s, RunIn(s, 1, Digits), Spaces \cup {","}), Len(s))
  ELSE s

\* where the longest run of characters of class that ends s begins
TailRun(s, class) == Last({j \in 1..Len(s) : Char(s, j) \notin class}) + 1

\* re.sub(r'[,\s]*\d+$', '', author)
strip_trailing_number(s) ==
  IF s /= "" /\ Char(s, Len(s)) \in Digits
  THEN SubSeq(s, 1, TailRun(SubSeq(s, 1, TailRun(s, Digits) - 1), Spaces \cup {","}) - 1)
  ELSE s

\* the part is passed over before it is cleaned
part_skipped(part) ==
  \/ Len(part) < 3
  \/ IsDigit(part)
  \/ ContainsAny(ToLower(part), InstitutionWords)
  \/ Contains(ToLower(part), "et al")
  \/ ContainsAny(ToLower(part), SiteEndings)

\* author of a part
clean_author(part) == Strip(strip_trailing_number(strip_leading_number(part)))

\* it looks like a name: has letters, reasonable length, capitalized
looks_like_name(name) ==
  /\ Len(name) >= 3
  /\ \E i \in 1..Len(name) : Char(name, i) \in Uppers \cup Lowers
  /\ Head(name) \in Uppers

RECURSIVE authors_of(_)
\* the authors list built from the parts
authors_of(parts) ==
  IF parts = <<>> THEN <<>>
  ELSE IF ~part_skipped(Strip(Head(parts))) /\ looks_like_name(clean_author(Strip(Head(parts))))
  THEN <<clean_author(Strip(Head(parts)))>> \o authors_of(Tail(parts))
  ELSE authors_of(Tail(parts))

\* the joined list, when it is meaningful
author_list_of(authors) ==
  IF authors /= <<>> /\ Len(Join(Take(authors, ParsedAuthorCap))) > 5
  THEN Join(Take(authors, ParsedAuthorCap))
  ELSE None

\* self._parse_author_line(line)
parse_author_line(line) ==
  IF Len(line) < 5 THEN None
  ELSE IF ContainsAny(ToLower(line), SiteWords) THEN None
  ELSE IF ~looks_like_author_list(line) THEN None
  ELSE author_list_of(authors_of(Split(author_line_of(line), ",")))

\* ------------------------------------------------ _extract_title_from_text
RECURSIVE normalize_from(_, _)
\* re.sub(r'\s+', ' ', s), for what is left of s from position i
normalize_from(s, i) ==
  IF i > Len(s) THEN ""
  ELSE IF Char(s, i) \in Spaces THEN " " \o normalize_from(s, RunIn(s, i, Spaces))
  ELSE SubSeq(s, i, RunNotIn(s, i, Spaces) - 1) \o normalize_from(s, RunNotIn(s, i, Spaces))

\* re.sub(r'\s+', ' ', s)
normalize_whitespace(s) == normalize_from(s, 1)

\* where the identifier that r'^.*?arXiv:[^\s]+\s*' matches begins, 0 for
\* no match
arxiv_id_at(s) ==
  First({i \in 1..Len(s) : At(s, i, "arXiv:") /\ i + 6 <= Len(s) /\ Char(s, i + 6) \notin Spaces})

\* re.sub(r'^.*?arXiv:[^\s]+\s*', '', line)
remove_arxiv_id(s) ==
  IF arxiv_id_at(s) = 0 THEN s
  ELSE SubSeq(s, RunIn(s, RunNotIn(s, arxiv_id_at(s) + 6, Spaces), Spaces), Len(s))

\* where the bracket that r'^\[[^\]]+\]\s*' matches closes, 0 for no match
category_close(s) ==
  IF Len(s) >= 3 /\ Head(s) = "[" /\ Char(s, 2) /= "]"
  THEN First({j \in 3..Len(s) : Char(s, j) = "]"})
  ELSE 0

\* re.sub(r'^\[[^\]]+\]\s*', '', after_arxiv)
remove_category(s) ==
  IF category_close(s) = 0 THEN s
  ELSE SubSeq(s, RunIn(s, category_close(s) + 1, Spaces), Len(s))

\* one past the match of r'^\d{1,2}\s+\w+\s+\d{4}' given where its digits
\* (d), first blank (w), word (x) and second blank (y) end; 0 for no match
date_end_given(s, d, w, x, y) ==
  IF d \in {2, 3} /\ w > d /\ x > w /\ y > x /\ FourDigitsAt(s, y) THEN y + 4 ELSE 0

\* one past the match of r'^\d{1,2}\s+\w+\s+\d{4}', 0 for no match
date_end(s) ==
  date_end_given(s, RunIn(s, 1, Digits),
                 RunIn(s, RunIn(s, 1, Digits), Spaces),
                 RunIn(s, RunIn(s, RunIn(s, 1, Digits), Spaces), WordChars),
                 RunIn(s, RunIn(s, RunIn(s, RunIn(s, 1, Digits), Spaces), WordChars), Spaces))

\* re.sub(r'^\d{1,2}\s+\w+\s+\d{4}', '', after_arxiv)
remove_date(s) == IF date_end(s) = 0 THEN s ELSE SubSeq(s, date_end(s), Len(s))

\* title of the arXiv branch, before its length is tested
arxiv_title(s) ==
  normalize_whitespace(Strip(remove_date(remove_category(remove_arxiv_id(s)))))

\* the length test that lets every remainder through
arxiv_title_any_length(candidate) == TRUE

\* 20 <= len(title) <= 200
arxiv_title_in_range(candidate) ==
  TitleMin <= Len(candidate) /\ Len(candidate) <= TitleMax

\* re.search(r'^\(|^Received|^Published|^DOI:|^www\.|^http', line, re.IGNORECASE)
looks_like_metadata(s) ==
  \E w \in {"(", "received", "published", "doi:", "www.", "http"} : AtIgnoreCase(s, 1, w)

\* re.search(r'\d+[,\s]', line)
digit_then_separator(s) ==
  \E i \in 1..(Len(s) - 1) : Char(s, i) \in Digits /\ Char(s, i + 1) \in Spaces \cup {","}

\* ',' in line and re.search(r'\d+[,\s]', line) and len(line) < 150
looks_like_author_line(s) ==
  Contains(s, ",") /\ digit_then_separator(s) /\ Len(s) < 150

\* the test of the combined lines
looks_like_combined_title(c) ==
  /\ 30 <= Len(c) /\ Len(c) <= 250
  /\ Head(c) \in Uppers
  /\ ~Contains(c, "@")
  /\ ~Contains(ToLower(c), "http")
  /\ ~AtIgnoreCase(c, 1, "doi:")
  /\ ~AtIgnoreCase(c, 1, "www.")
  /\ ~name_pattern_at(c, 1)

\* num_lines lines from line i on (i from 1), when they make a title
combined_title(lines, i, num_lines) ==
  IF /\ i + num_lines - 1 <= Len(lines)
     /\ \A j \in i..(i + num_lines - 1) : ~looks_like_author_line(lines[j])
     /\ looks_like_combined_title(JoinWith(SubSeq(lines, i, i + num_lines - 1), " "))
  THEN Strip(normalize_whitespace(JoinWith(SubSeq(lines, i, i + num_lines - 1), " ")))
  ELSE None

\* the body of the multi-line loop for line i
multi_line_at(lines, i) ==
  IF looks_like_metadata(lines[i]) \/ looks_like_author_line(lines[i]) THEN None
  ELSE IF combined_title(lines, i, 2) /= None THEN combined_title(lines, i, 2)
  ELSE combined_title(lines, i, 3)

RECURSIVE multi_line_from(_, _)
\* for i in range(min(5, len(lines) - 1)), from line i on
multi_line_from(lines, i) ==
  IF i > Min(5, Len(lines) - 1) THEN None
  ELSE IF multi_line_at(lines, i) /= None THEN multi_line_at(lines, i)
  ELSE multi_line_from(lines, i + 1)

\* one past the [A-Z][a-z]+ at position i, 0 for none
capitalized_end(s, i) ==
  IF i >= 1 /\ i + 1 <= Len(s) /\ Char(s, i) \in Uppers /\ Char(s, i + 1) \in Lowers
  THEN RunIn(s, i + 1, Lowers)
  ELSE 0

\* one past the \s+[A-Z][a-z]+ at position e, 0 for none
next_capitalized_end(s, e) ==
  IF e > 0 /\ RunIn(s, e, Spaces) > e THEN capitalized_end(s, RunIn(s, e, Spaces)) ELSE 0

\* re.match(r'^[A-Z][a-z]+\s+[A-Z][a-z]+(?:\s+[A-Z][a-z]+)?$', line) and len(line) < 50
looks_like_short_name(s) ==
  /\ Len(s) < 50
  /\ \/ next_capitalized_end(s, capitalized_end(s, 1)) = Len(s) + 1
     \/ next_capitalized_end(s, next_capitalized_end(s, capitalized_end(s, 1))) = Len(s) + 1

\* re.match(r'^\d+[,\s]', line)
starts_with_number(s) ==
  /\ s /= "" /\ Head(s) \in Digits
  /\ RunIn(s, 1, Digits) <= Len(s)
  /\ Char(s, RunIn(s, 1, Digits)) \in Spaces \cup {","}

\* the body of the single-line loop for line i (i from 1)
single_line_at(lines, i) ==
  IF \/ looks_like_metadata(lines[i])
     \/ looks_like_author_line(lines[i])
     \/ looks_like_short_name(lines[i])
  THEN None
  ELSE IF /\ 20 <= Len(lines[i]) /\ Len(lines[i]) <= 200
          /\ ~Contains(lines[i], "@")
          /\ ~Contains(ToLower(lines[i]), "http")
          /\ ~starts_with_number(lines[i])
          /\ i <= 3
          /\ Head(lines[i]) \in Uppers
  THEN lines[i]
  ELSE None

RECURSIVE single_line_from(_, _)
\* for i, line in enumerate(lines[:8]), from line i on
single_line_from(lines, i) ==
  IF i > Min(8, Len(lines)) THEN None
  ELSE IF single_line_at(lines, i) /= None THEN single_line_at(lines, i)
  ELSE single_line_from(lines, i + 1)

\* the multi-line scan, then the single-line scan
title_from_scans(lines) ==
  IF multi_line_from(lines, 1) /= None THEN multi_line_from(lines, 1)
  ELSE single_line_from(lines, 1)

\* self._extract_title_from_text(lines)
extract_title_from_text(lines) ==
  IF lines = <<>> THEN None
  ELSE IF Contains(lines[1], "arXiv:") /\ arxiv_title_in_range(arxiv_title(lines[1]))
  THEN arxiv_title(lines[1])
  ELSE title_from_scans(lines)

\* ------------------------------------------------------------ PaperMetadata
\* check_if_downloaded without the test on the size
check_if_downloaded_unsized(exists, size) == exists

\* check_if_downloaded
check_if_downloaded(exists, size) ==
  IF ~exists THEN FALSE
  ELSE IF size = StatError THEN FALSE
  ELSE IF size < PlaceholderSize THEN FALSE
  ELSE TRUE

\* the guard that opens extract_metadata_from_pdf
pdf_guard_returns(pdf_support, downloaded) == ~pdf_support \/ ~downloaded

\* an exception that leaves scan_papers instead of being caught
after_exception_uncaught == "aborted"

\* the except clause of extract_metadata_from_pdf prints and falls off the
\* end of the function: control is back in scan_papers
after_exception == "filename"

\* every page of the document searched
doi_range_all(n) == n

\* range(min(3, len(pdf.pages)))
doi_range(n) == Min(DoiPages, n)

\* the lookup guarded by the library flag alone
lookup_guard_no_doi(d, requests_support) == requests_support

\* if doi and REQUESTS_SUPPORT
lookup_guard(d, requests_support) == d /= None /\ requests_support

\* the fall back run whatever the resolver answered
after_fetch_always_falls_back(ok) == "embedded"

\* where extract_metadata_from_pdf goes with the resolver's answer: return on
\* True, fall back to PDF metadata and text on False
after_fetch(ok) == IF ok THEN "filename" ELSE "embedded"

\* the stems of the files scanned
Stems == {"Johnson_2015_Entropy", "Johnson_Entropy", "p1_2015", "p1"}

\* re.search(r'[(\[]?(\d{4})[)\]]?', stem): group 1 of the leftmost match,
\* the brackets being optional on both sides
filename_year_match(s) ==
  IF First({i \in 1..Len(s) : FourDigitsAt(s, i)}) = 0 THEN None
  ELSE SubSeq(s, First({i \in 1..Len(s) : FourDigitsAt(s, i)}),
              First({i \in 1..Len(s) : FourDigitsAt(s, i)}) + 3)

\* the stem taken whole
filename_first_part_unsplit(s) == s

\* re.split(r'[_\-\s]', stem)[0]
filename_first_part(s) == SubSeq(s, 1, RunNotIn(s, 1, {"_", "-"} \cup Spaces) - 1)

\* potential_author, or None when it fails len > 2 and isalpha(); the
\* article prefix needs a space after it, which split has removed
filename_potential_author(s) ==
  IF /\ Len(filename_first_part(s)) > 2
     /\ \A k \in 1..Len(filename_first_part(s)) :
          Char(filename_first_part(s), k) \in Uppers \cup Lowers
  THEN filename_first_part(s)
  ELSE None

\* the filename year written over a year already set
filename_year_overwrites(match, old) == IF match /= None THEN match ELSE old

\* year from the filename: only when a year matched and none is set
filename_year(match, old) ==
  IF match /= None /\ ~Truthy(old) THEN match ELSE old

\* author from the filename: only when none is set and the first part of
\* the name is alphabetic and longer than 2
filename_author(candidate, old) ==
  IF ~Truthy(old) THEN (IF candidate /= None THEN candidate ELSE old) ELSE old

\* the else branch without its call of extract_metadata_from_filename
scan_branch_skips_filename(downloaded) == IF downloaded THEN "extract_pdf" ELSE "append"

\* which extraction scan_papers calls first
scan_branch(downloaded) == IF downloaded THEN "extract_pdf" ELSE "filename"

Record == [title |-> title, author |-> author, year |-> year,
           journal |-> journal, url |-> url]

\* the locals of extract_metadata_from_pdf (pdf, page_num, doi) end with the
\* call: they are let go when control is back in scan_papers
PopLocals ==
  IF pc' = "filename"
  THEN num_pages' = 0 /\ page_num' = 0 /\ doi' = None /\ examined' = <<>>
  ELSE UNCHANGED <<num_pages, page_num, doi, examined>>

\* an exception inside the try block of extract_metadata_from_pdf: the
\* except clause prints one line
RaiseInPdf ==
  /\ pc' = after_exception
  /\ errors_printed' = errors_printed + 1
  /\ PopLocals

\* self.title = pdf.metadata.get('/Title', None), and the same for the author
embedded_field(value, old) == value

\* the year of /CreationDate, when four digits are found in it
embedded_year(match, old) == IF match /= None THEN match ELSE old

\* if not self.<field>: self.<field> = <what the text routine returned>
text_fill(found, old) == IF ~Truthy(old) THEN found ELSE old

\* page 2 read whatever page 1 gave
second_page_always(value, n) == n > 1

\* if not self.<field> and len(pdf.pages) > 1
second_page_needed(value, n) == ~Truthy(value) /\ n > 1

\* if not self.<field>, before the routine is called on page 1
first_page_needed(value) == ~Truthy(value)

\* one call of a text routine: which, on which page (0-based), what it returned
Call(what, page, found) == [what |-> what, page |-> page, found |-> found]

\* the log after the guarded call on page 1
consult_first(log, what, value, found) ==
  IF first_page_needed(value) THEN Append(log, Call(what, 0, found)) ELSE log

\* ------------------------------------------------------------------ state
\* the organizer as PaperOrganizer.__init__ leaves it
NoScan ==
  /\ pc = "scan"
  /\ next_file = 1
  /\ papers = <<>>
  /\ errors_printed = 0
  /\ filename = 0
  /\ file_exists = FALSE
  /\ st_size = 0
  /\ is_downloaded = FALSE
  /\ stem = None
  /\ title = None /\ author = None /\ year = None
  /\ journal = None /\ url = None
  /\ num_pages = 0 /\ page_num = 0 /\ doi = None
  /\ examined = <<>>
  /\ consulted = <<>>
  /\ fetch_result = FALSE
  /\ response = NoResponse
  /\ requested = <<>>
  /\ sleeps = 0
  /\ stages = <<>>

\* no text routine called on its own
NoTextCall == routine = "none" /\ argument = None /\ returned = None

\* no FolderReorganizer built
NoReorganizer ==
  /\ dry_run = TRUE /\ moves = <<>> /\ files = {} /\ dirs = {}
  /\ rpc = "none" /\ answer = None
  /\ move_num = 0 /\ moved_count = 0 /\ error_count = 0
  /\ args = {} /\ listing = <<>> /\ earlier = "none"

Init ==
  /\ PDF_SUPPORT \in BOOLEAN
  /\ REQUESTS_SUPPORT \in BOOLEAN
  /\ NoScan
  /\ NoTextCall
  /\ NoReorganizer

\* ------------------------------------------------------------ scan_papers
\* a path with a part that starts with '.' is skipped
SkipHidden ==
  /\ pc = "scan"
  /\ next_file <= NumFiles
  /\ next_file' = next_file + 1
  /\ UNCHANGED <<elsewhere, consulted, flags, pc, papers, errors_printed, file, fields, pdf, network, stages>>

\* a record as __init__ leaves it, and nothing done for it yet
FreshRecord ==
  /\ title' = None /\ author' = None /\ year' = None
  /\ journal' = None /\ url' = None
  /\ num_pages' = 0 /\ page_num' = 0 /\ doi' = None
  /\ examined' = <<>>
  /\ consulted' = <<>>
  /\ fetch_result' = FALSE
  /\ response' = NoResponse
  /\ requested' = <<>>
  /\ sleeps' = 0
  /\ stages' = <<>>

\* paper = PaperMetadata(filepath), then the branch on is_downloaded
ProcessFile ==
  /\ pc = "scan"
  /\ next_file <= NumFiles
  /\ \E exists \in BOOLEAN, size \in Sizes :
       /\ (~exists => size = 0)
       /\ file_exists' = exists
       /\ st_size' = size
       /\ is_downloaded' = check_if_downloaded(exists, size)
       /\ stem' = None
       /\ pc' = scan_branch(check_if_downloaded(exists, size))
  /\ filename' = next_file
  /\ FreshRecord
  /\ UNCHANGED <<elsewhere, flags, scan>>

\* self.papers.append(paper); the loop variable paper is rebound by the next
\* turn, so the record is followed no further than the list
AppendPaper ==
  /\ pc = "append"
  /\ papers' = Append(papers, [file |-> filename, is_downloaded |-> is_downloaded])
  /\ next_file' = next_file + 1
  /\ pc' = "scan"
  /\ filename' = 0 /\ file_exists' = FALSE /\ st_size' = 0
  /\ is_downloaded' = FALSE
  /\ stem' = None
  /\ FreshRecord
  /\ UNCHANGED <<elsewhere, flags, errors_printed>>

\* the loops are exhausted: the summary is printed
ScanDone ==
  /\ pc = "scan"
  /\ next_file > NumFiles
  /\ pc' = "scan_done"
  /\ UNCHANGED <<elsewhere, consulted, flags, scan, file, fields, pdf, network, stages>>

\* ------------------------------------------------ extract_metadata_from_pdf
\* if not PDF_SUPPORT or not self.is_downloaded: return
PdfGuardReturn ==
  /\ pc = "extract_pdf"
  /\ pdf_guard_returns(PDF_SUPPORT, is_downloaded)
  /\ pc' = "filename"
  /\ UNCHANGED <<elsewhere, consulted, flags, scan, file, fields, pdf, network, stages>>

\* open(...) and PyPDF2.PdfReader(f): raises, or a document of n pages
OpenPdf ==
  /\ pc = "extract_pdf"
  /\ ~pdf_guard_returns(PDF_SUPPORT, is_downloaded)
  /\ \/ RaiseInPdf /\ UNCHANGED <<elsewhere, consulted, flags, next_file, papers, file, fields, network, stages>>
     \/ /\ \E n \in 0..MaxPages :
              /\ num_pages' = n
              /\ pc' = IF doi_range(n) > 0 THEN "doi_search" ELSE "lookup"
         /\ stages' = Append(stages, "DoiSearch")
         /\ UNCHANGED <<elsewhere, consulted, flags, scan, file, fields, page_num, doi, examined, network>>

\* one turn of the DOI loop: extract_text of page page_num raises, or
\* _extract_doi_from_text finds a DOI in it (break) or none
DoiSearchPage ==
  /\ pc = "doi_search"
  /\ page_num < doi_range(num_pages)
  /\ \/ RaiseInPdf /\ UNCHANGED <<elsewhere, consulted, flags, next_file, papers, file, fields, network, stages>>
     \/ /\ doi' = DoiOfPage(page_num)
        /\ examined' = Append(examined, [page |-> page_num, found |-> DoiOfPage(page_num)])
        /\ pc' = "lookup"
        /\ UNCHANGED <<elsewhere, consulted, flags, scan, file, fields, num_pages, page_num, network, stages>>
     \/ /\ page_num' = page_num + 1
        /\ examined' = Append(examined, [page |-> page_num, found |-> None])
        /\ pc' = IF page_num + 1 < doi_range(num_pages) THEN "doi_search" ELSE "lookup"
        /\ UNCHANGED <<elsewhere, consulted, flags, scan, file, fields, num_pages, doi, network, stages>>

\* self._fetch_metadata_from_crossref(doi), for every answer of the registry
FetchMetadataFromCrossref ==
  /\ pc = "lookup"
  /\ lookup_guard(doi, REQUESTS_SUPPORT)
  /\ \E o \in RegistryOutcomes :
       /\ title' = Assigned(o.result.title, title)
       /\ author' = Assigned(o.result.author, author)
       /\ year' = Assigned(o.result.year, year)
       /\ journal' = Assigned(o.result.journal, journal)
       /\ url' = Assigned(o.result.url, url)
       /\ fetch_result' = o.result.ok
       /\ response' = o.response
       /\ sleeps' = sleeps + o.sleeps
  /\ requested' = Append(requested, doi)
  /\ stages' = Append(stages, "RegistryLookup")
  /\ pc' = "fetched"
  /\ UNCHANGED <<elsewhere, consulted, flags, scan, file, pdf>>

\* no DOI, or no requests library: straight to the fall back
SkipLookup ==
  /\ pc = "lookup"
  /\ ~lookup_guard(doi, REQUESTS_SUPPORT)
  /\ pc' = "embedded"
  /\ UNCHANGED <<elsewhere, consulted, flags, scan, file, fields, pdf, network, stages>>

\* if self._fetch_metadata_from_crossref(doi): ... return
AfterFetch ==
  /\ pc = "fetched"
  /\ pc' = after_fetch(fetch_result)
  /\ response' = Outcome(response, fetch_result)
  /\ PopLocals
  /\ UNCHANGED <<elsewhere, consulted, flags, scan, file, fields, fetch_result, requested,
                 sleeps, stages>>

\* pdf.metadata: raises, is empty, or holds /Title, /Author and /CreationDate
ReadEmbeddedMetadata ==
  /\ pc = "embedded"
  /\ stages' = Append(stages, "Embedded")
  /\ \/ RaiseInPdf /\ UNCHANGED fields
     \/ pc' = "text" /\ UNCHANGED <<fields, pdf, errors_printed>>
     \/ /\ \E t \in {None, "", EmbeddedTitle}, a \in {None, "", EmbeddedAuthor},
              y \in {None, EmbeddedYear} :
              /\ title' = embedded_field(t, title)
              /\ author' = embedded_field(a, author)
              /\ year' = embedded_year(y, year)
        /\ pc' = "text"
        /\ UNCHANGED <<journal, url, pdf, errors_printed>>
  /\ UNCHANGED <<elsewhere, consulted, flags, next_file, papers, file, network>>

\* if len(pdf.pages) > 0 fails: the function ends
NoFirstPage ==
  /\ pc = "text"
  /\ num_pages = 0
  /\ pc' = "filename"
  /\ PopLocals
  /\ UNCHANGED <<elsewhere, consulted, flags, scan, file, fields, network, stages>>

\* first page text and its lines (extract_text raises, or returns None and
\* split raises), the title from page 1, then from page 2
ExtractTitle ==
  /\ pc = "text"
  /\ num_pages > 0
  /\ stages' = Append(stages, "TextHeuristics")
  /\ \/ RaiseInPdf /\ UNCHANGED <<title, consulted>>
     \/ \E t1 \in {None, TextTitle1} :
          IF second_page_needed(text_fill(t1, title), num_pages)
          THEN \/ /\ RaiseInPdf
                  /\ title' = text_fill(t1, title)
                  /\ consulted' = consult_first(consulted, "title", title, t1)
               \/ \E t2 \in {None, TextTitle2} :
                    /\ title' = t2
                    /\ consulted' = Append(consult_first(consulted, "title", title, t1),
                                           Call("title", 1, t2))
                    /\ pc' = "authors"
                    /\ UNCHANGED <<pdf, errors_printed>>
          ELSE /\ title' = text_fill(t1, title)
               /\ consulted' = consult_first(consulted, "title", title, t1)
               /\ pc' = "authors"
               /\ UNCHANGED <<pdf, errors_printed>>
  /\ UNCHANGED <<elsewhere, flags, next_file, papers, file, author, year, journal, url, network>>

\* the authors from page 1, then from page 2
ExtractAuthors ==
  /\ pc = "authors"
  /\ \E a1 \in {None, TextAuthor1} :
       IF second_page_needed(text_fill(a1, author), num_pages)
       THEN \/ /\ RaiseInPdf
               /\ author' = text_fill(a1, author)
               /\ consulted' = consult_first(consulted, "author", author, a1)
            \/ \E a2 \in {None, TextAuthor2} :
                 /\ author' = a2
                 /\ consulted' = Append(consult_first(consulted, "author", author, a1),
                                        Call("author", 1, a2))
                 /\ pc' = "year"
                 /\ UNCHANGED <<pdf, errors_printed>>
       ELSE /\ author' = text_fill(a1, author)
            /\ consulted' = consult_first(consulted, "author", author, a1)
            /\ pc' = "year"
            /\ UNCHANGED <<pdf, errors_printed>>
  /\ UNCHANGED <<elsewhere, flags, next_file, papers, file, title, year, journal, url, network, stages>>

\* the year from the text of page 1
ExtractYear ==
  /\ pc = "year"
  /\ \E y \in {None, TextYear} :
       /\ year' = text_fill(y, year)
       /\ consulted' = consult_first(consulted, "year", year, y)
  /\ pc' = "filename"
  /\ PopLocals
  /\ UNCHANGED <<elsewhere, flags, scan, file, title, author, journal, url, network, stages>>

\* ------------------------------------------- extract_metadata_from_filename
\* the year matched in the stem and the first part of the stem when it passes
\* the test on length and letters; the stem is what the file was named
ExtractMetadataFromFilename ==
  /\ pc = "filename"
  /\ \E s \in Stems :
       /\ stem' = s
       /\ year' = filename_year(filename_year_match(s), year)
       /\ author' = filename_author(filename_potential_author(s), author)
  /\ stages' = Append(stages, "FilenameFallback")
  /\ pc' = "append"
  /\ UNCHANGED <<elsewhere, consulted, flags, scan, filename, file_exists, st_size,
                 is_downloaded, title, journal, url, pdf, network>>

Next ==
  \/ SkipHidden
  \/ ProcessFile
  \/ PdfGuardReturn
  \/ OpenPdf
  \/ DoiSearchPage
  \/ FetchMetadataFromCrossref
  \/ SkipLookup
  \/ AfterFetch
  \/ ReadEmbeddedMetadata
  \/ NoFirstPage
  \/ ExtractTitle
  \/ ExtractAuthors
  \/ ExtractYear
  \/ ExtractMetadataFromFilename
  \/ AppendPaper
  \/ ScanDone

Spec == Init /\ [][Next]_vars

\* ------------------------------------------------- the text routines alone
\* The text routines of PaperMetadata are functions of their argument. They
\* are called here on texts put together from pieces, so that what a text
\* contains is known apart from what the routine finds in it. The resolver
\* is called the same way, on a response of the registry.
\* the sequences of 1 to MaxPieces elements of a set
PiecesFrom(S) == UNION {[1..k -> S] : k \in 1..MaxPieces}

\* DOIs as they are printed on a page, and the three forms the patterns read
DoiValues == {"10.1/x", "10.22/y", "10.333/z"}
DoiPieces ==
  {[form |-> f, doi |-> d] : f \in {"url", "label", "bare"}, d \in DoiValues}
  \cup {[form |-> "word", doi |-> None]}
DoiPieceText(piece) ==
  CASE piece.form = "url" -> "https://doi.org/" \o piece.doi
    [] piece.form = "label" -> "DOI: " \o piece.doi
    [] piece.form = "bare" -> piece.doi
    [] OTHER -> "see"
\* what stands between two pieces
Separators == {" ", ", ", "\n"}
DoiText(pieces, sep) == JoinWith([i \in 1..Len(pieces) |-> DoiPieceText(pieces[i])], sep)

\* s twice
Twice(s) == s \o s

RECURSIVE Filler(_)
\* n characters that no pattern reads
Filler(n) ==
  IF n = 0 THEN ""
  ELSE IF n % 2 = 1 THEN "x" \o Twice(Filler(n \div 2))
  ELSE Twice(Filler(n \div 2))

\* years as they are printed on a first page: in a parenthesised group with
\* two dates, in one with a single date, or as a bare token; 3000 is a four
\* digit run that is no year
YearPieces ==
  {[form |-> "pair", first |-> "1999", last |-> "2005"],
   [form |-> "pair", first |-> "2005", last |-> "1999"],
   [form |-> "word", first |-> None, last |-> None]}
  \cup {[form |-> f, first |-> y, last |-> y] :
          f \in {"dated", "bare"}, y \in {"1999", "2005", "3000"}}
YearPieceText(piece) ==
  CASE piece.form = "pair" ->
         "(Received 3 Jan " \o piece.first \o "; published 22 May " \o piece.last \o ")"
    [] piece.form = "dated" -> "(Dated: April 9, " \o piece.last \o ")"
    [] piece.form = "bare" -> "Copyright " \o piece.last
    [] OTHER -> "Abstract"
YearText(pieces, sep) == JoinWith([i \in 1..Len(pieces) |-> YearPieceText(pieces[i])], sep)
\* the text that comes before the pieces: none, or what brings the end of a
\* "(Dated: April 9, 2005)" to the end of the window or one past it
YearLeads == {0, YearWindow - 22, YearWindow - 21}

\* what an author line is made of: a surname with an initial and a numeric
\* superscript, a full name with a superscript, an institution, a list of
\* full names; names is what the piece says of the authors and authors is
\* the same author by author
AuthorPieces ==
  {[text |-> "Smith, J.1", names |-> "Smith, J.", authors |-> <<"Smith, J.">>],
   [text |-> "Doe, A.2", names |-> "Doe, A.", authors |-> <<"Doe, A.">>],
   [text |-> "Mary Major3", names |-> "Mary Major", authors |-> <<"Mary Major">>],
   [text |-> "and University of X", names |-> "", authors |-> <<>>],
   [text |-> "Ann Lee, Bo Chi, Cy Dow", names |-> "Ann Lee, Bo Chi, Cy Dow",
    authors |-> <<"Ann Lee", "Bo Chi", "Cy Dow">>],
   [text |-> "Di Eck, Ed Fry, Flo Gee", names |-> "Di Eck, Ed Fry, Flo Gee",
    authors |-> <<"Di Eck", "Ed Fry", "Flo Gee">>]}
AuthorText(pieces) == JoinWith([i \in 1..Len(pieces) |-> pieces[i].text], ", ")

\* what follows the identifier, the category and the date on line 0, with
\* what it reads once its blanks are single: of 5, 19, 20, 37, 200 and 201
\* characters
TitleRests ==
  {[text |-> "Quantum effects in disordered systems",
    normal |-> "Quantum effects in disordered systems"],
   [text |-> "Quantum  effects   in disordered systems",
    normal |-> "Quantum effects in disordered systems"],
   [text |-> "Short", normal |-> "Short"],
   [text |-> "Quantum effects now", normal |-> "Quantum effects now"],
   [text |-> "Quantum  effects now", normal |-> "Quantum effects now"],
   [text |-> "Quantum effects in d", normal |-> "Quantum effects in d"],
   [text |-> "Quantum effects " \o Filler(TitleMax - 16),
    normal |-> "Quantum effects " \o Filler(TitleMax - 16)],
   [text |-> "Quantum effects " \o Filler(TitleMax - 15),
    normal |-> "Quantum effects " \o Filler(TitleMax - 15)]}
\* line 0 of a first page: something before the identifier or nothing, the
\* identifier or none, a category or none, a date or none, and the rest
FirstLines ==
  [lead : {"", "Preprint "}, id : {"arXiv:1234.5678", ""}, category : {"", "[cond-mat]"},
   date : {"", "9 Apr 2008", "19 Apr 2008"}, rest : TitleRests]
FirstLineText(l) ==
  l.lead \o JoinWith(SelectSeq(<<l.id, l.category, l.date, l.rest.text>>, LAMBDA c : c /= ""), " ")
\* the lines after line 0
LaterLines ==
  {<<>>,
   <<"J. Smith, A. Doe">>,
   <<"J. Smith, A. Doe", "A study of the quantum effects seen", "in disordered systems">>}

\* no text routine is running and nothing else has started
TextInit ==
  /\ PDF_SUPPORT = TRUE /\ REQUESTS_SUPPORT = TRUE
  /\ NoScan
  /\ NoTextCall
  /\ NoReorganizer

\* self._extract_doi_from_text(page_text)
ExtractDoiFromText ==
  /\ routine = "none"
  /\ \E pieces \in PiecesFrom(DoiPieces), sep \in Separators :
       /\ argument' = [made_of |-> pieces, sep |-> sep, text |-> DoiText(pieces, sep)]
       /\ returned' = extract_doi_from_text(DoiText(pieces, sep))
  /\ routine' = "extract_doi_from_text"
  /\ UNCHANGED <<organizer, reorganizer>>

\* self._extract_year_from_text(first_page)
ExtractYearFromText ==
  /\ routine = "none"
  /\ \E pieces \in PiecesFrom(YearPieces), sep \in {" ", "\n"}, lead \in YearLeads :
       /\ lead > 0 => (Len(pieces) = 1 /\ sep = " ")
       /\ argument' = [made_of |-> pieces, sep |-> sep, lead |-> lead,
                       text |-> Filler(lead) \o YearText(pieces, sep)]
       /\ returned' = extract_year_from_text(Filler(lead) \o YearText(pieces, sep))
  /\ routine' = "extract_year_from_text"
  /\ UNCHANGED <<organizer, reorganizer>>

\* self._parse_author_line(line)
ParseAuthorLine ==
  /\ routine = "none"
  /\ \E pieces \in PiecesFrom(AuthorPieces) :
       /\ argument' = [made_of |-> pieces, text |-> AuthorText(pieces)]
       /\ returned' = parse_author_line(AuthorText(pieces))
  /\ routine' = "parse_author_line"
  /\ UNCHANGED <<organizer, reorganizer>>

\* self._extract_title_from_text(lines)
ExtractTitleFromText ==
  /\ routine = "none"
  /\ \E l \in FirstLines, later \in LaterLines :
       /\ argument' = [made_of |-> l, lines |-> <<FirstLineText(l)>> \o later]
       /\ returned' = extract_title_from_text(<<FirstLineText(l)>> \o later)
  /\ routine' = "extract_title_from_text"
  /\ UNCHANGED <<organizer, reorganizer>>

\* author arrays around the cap: entries with both names, without a given
\* name, without a family name
LongAuthorLists ==
  UNION {[1..k -> {Person("Ada", "Lovelace"), Person("", "Turing"), Person("Kurt", "")}] :
           k \in (AuthorCap - 1)..(AuthorCap + 1)}
\* the messages that carry such an array and nothing else
LongAuthorResponses ==
  {[status |-> "200", body |-> "msg", msg |-> [EmptyMessage EXCEPT !.author = a]] :
     a \in LongAuthorLists}

\* self._fetch_metadata_from_crossref(doi), requests at hand: the registry
\* answers, the routine returns and has assigned the fields that are not Kept
FetchMetadataAlone ==
  /\ routine = "none"
  /\ \E resp \in Responses \cup LongAuthorResponses :
       /\ argument' = resp
       /\ returned' = fetch_metadata_from_crossref(resp, Untouched)
  /\ routine' = "fetch_metadata_from_crossref"
  /\ UNCHANGED <<organizer, reorganizer>>

\* the routine has returned
ReturnFromText ==
  /\ routine /= "none"
  /\ routine' = "none" /\ argument' = None /\ returned' = None
  /\ UNCHANGED <<organizer, reorganizer>>

TextNext ==
  \/ ExtractDoiFromText
  \/ ExtractYearFromText
  \/ ParseAuthorLine
  \/ ExtractTitleFromText
  \/ FetchMetadataAlone
  \/ ReturnFromText

TextSpec == TextInit /\ [][TextNext]_vars

\* ------------------------------------------------- reorganize_folders.py
\* A path under root_path is the folder it is in, as the names from
\* root_path down (<<>> is root_path), and its name; every file is a PDF and
\* name is its stem.
Path(folder, name) == [folder |-> folder, name |-> name]

\* the folder and every folder above it, root_path left out
Ancestors(folder) == {SubSeq(folder, 1, k) : k \in 1..Len(folder)}

\* the files a tree may hold before the run
PossibleFiles ==
  {Path(<<>>, "a2001"), Path(<<"X">>, "a2001"), Path(<<"X", "Y">>, "b")}
\* a folder that holds nothing before the run
EmptyFolder == <<"E">>
\* the folders a strategy may name as target_folder
TargetFolders == {<<"2001">>, <<"X">>, <<"Other", "X">>}
\* what may be typed at the prompt
Answers == {"yes", "YES", "Yes", " yes", "y", "no", ""}

\* target_path.exists()
Exists(path) == path \in files \/ (path.folder \o <<path.name>>) \in dirs

\* f"{stem}_{counter}{source.suffix}"
Renamed(name, counter) == name \o "_" \o Char("123456789", counter)

RECURSIVE conflict_target(_, _, _)
\* the while loop of _plan_move, from counter on
conflict_target(target_folder, name, counter) ==
  IF Exists(Path(target_folder, Renamed(name, counter)))
  THEN conflict_target(target_folder, name, counter + 1)
  ELSE Path(target_folder, Renamed(name, counter))

\* target_path when _plan_move appends
target_path_of(source, target_folder) ==
  IF Exists(Path(target_folder, source.name))
  THEN conflict_target(target_folder, source.name, 1)
  ELSE Path(target_folder, source.name)

\* self.moves after self._plan_move(source, target_folder)
plan_move(planned, source, target_folder) ==
  IF source.folder = target_folder THEN planned
  ELSE Append(planned, [source |-> source, target |-> target_path_of(source, target_folder)])

\* the test of the answer that lets every answer through
confirmed_always(typed) == TRUE

\* response.lower() != 'yes' is false
confirmed(typed) == ToLower(typed) = "yes"

\* the folders left by _remove_empty_folders: it goes through the folders
\* deepest first, so a folder goes when no file is in it or below it
folders_kept(folders, kept_files) ==
  {d \in folders : \E f \in kept_files : d \in Ancestors(f.folder)}

\* main has built FolderReorganizer(root_path, dry_run=not args.execute)
ReorgInit ==
  /\ PDF_SUPPORT = TRUE /\ REQUESTS_SUPPORT = TRUE
  /\ NoScan
  /\ NoTextCall
  /\ dry_run \in BOOLEAN
  /\ moves = <<>>
  /\ files \in SUBSET PossibleFiles
  /\ \E extra \in SUBSET {EmptyFolder} :
       dirs = extra \cup UNION {Ancestors(f.folder) : f \in files}
  /\ rpc = "strategies"
  /\ answer = None
  /\ move_num = 0 /\ moved_count = 0 /\ error_count = 0
  /\ args = {} /\ listing = <<>> /\ earlier = "none"

\* a strategy calls self._plan_move(pdf, target_folder) for a file of rglob
PlanMove ==
  /\ rpc = "strategies"
  /\ Len(moves) < MaxMoves
  /\ \E source \in files, target_folder \in TargetFolders :
       moves' = plan_move(moves, source, target_folder)
  /\ UNCHANGED <<organizer, text_call, command, dry_run, files, dirs, rpc, answer,
                 move_num, moved_count, error_count>>

\* execute_moves: "No moves planned!"
NoMovesPlanned ==
  /\ rpc = "strategies"
  /\ moves = <<>>
  /\ rpc' = "done"
  /\ UNCHANGED <<organizer, text_call, command, dry_run, moves, files, dirs, answer,
                 move_num, moved_count, error_count>>

\* execute_moves: the sample is printed, then "DRY RUN MODE" and return
DryRunReturn ==
  /\ rpc = "strategies"
  /\ moves /= <<>>
  /\ dry_run
  /\ rpc' = "done"
  /\ UNCHANGED <<organizer, text_call, command, dry_run, moves, files, dirs, answer,
                 move_num, moved_count, error_count>>

\* execute_moves: the sample is printed, then the prompt
Prompt ==
  /\ rpc = "strategies"
  /\ moves /= <<>>
  /\ ~dry_run
  /\ rpc' = "prompt"
  /\ UNCHANGED <<organizer, text_call, command, dry_run, moves, files, dirs, answer,
                 move_num, moved_count, error_count>>

\* response = input(...) and the test of it
Confirm ==
  /\ rpc = "prompt"
  /\ \E typed \in Answers :
       /\ answer' = typed
       /\ IF confirmed(typed)
          THEN rpc' = "moving" /\ move_num' = 1
          ELSE rpc' = "done" /\ move_num' = move_num
  /\ UNCHANGED <<organizer, text_call, command, dry_run, moves, files, dirs,
                 moved_count, error_count>>

\* input raises (end of input, interrupt): the run ends there
PromptRaises ==
  /\ rpc = "prompt"
  /\ rpc' = "done"
  /\ UNCHANGED <<organizer, text_call, command, dry_run, moves, files, dirs, answer,
                 move_num, moved_count, error_count>>

\* one turn of the loop: mkdir of the target's folder, then shutil.move
MoveOne ==
  /\ rpc = "moving"
  /\ move_num <= Len(moves)
  /\ dirs' = dirs \cup Ancestors(moves[move_num].target.folder)
  /\ \/ /\ moves[move_num].source \in files
        /\ files' = (files \ {moves[move_num].source}) \cup {moves[move_num].target}
        /\ moved_count' = moved_count + 1
        /\ error_count' = error_count
     \/ /\ \/ moves[move_num].source \notin files
           \* where rename does not replace a file, a target in place raises
           \/ moves[move_num].target \in files
        /\ files' = files
        /\ moved_count' = moved_count
        /\ error_count' = error_count + 1
  /\ move_num' = move_num + 1
  /\ UNCHANGED <<organizer, text_call, command, dry_run, moves, rpc, answer>>

\* self._remove_empty_folders()
RemoveEmptyFolders ==
  /\ rpc = "moving"
  /\ move_num > Len(moves)
  /\ dirs' = folders_kept(dirs, files)
  /\ rpc' = "done"
  /\ UNCHANGED <<organizer, text_call, command, dry_run, moves, files, answer,
                 move_num, moved_count, error_count>>

ReorgNext ==
  \/ PlanMove
  \/ NoMovesPlanned
  \/ DryRunReturn
  \/ Prompt
  \/ Confirm
  \/ PromptRaises
  \/ MoveOne
  \/ RemoveEmptyFolders

ReorgSpec == ReorgInit /\ [][ReorgNext]_vars

\* --------------------------------------- reorganize_folders.py: strategies
\* A run of main on a tree: suggest_reorganization, then every strategy the
\* command line names, in the order main calls them, then execute_moves (the
\* actions above, from rpc = "strategies"). A strategy is one step: it reads
\* the tree and appends to self.moves.
Strategies == {"by_year", "by_author", "by_keywords", "consolidate", "flatten"}

\* the keyword map loaded from the file named on the command line, in the
\* order of the file
KeywordMap ==
  <<[folder |-> "Optics", keywords |-> <<"laser", "Photon">>],
    [folder |-> "Thermo", keywords |-> <<"Entropy">>]>>

\* the files a tree may hold before the first run
TreeFiles ==
  {Path(<<>>, "Smith_2001_laser"),
   Path(<<"X">>, "Smith_2001_laser"),
   Path(<<"Y">>, "Smith_2001_laser"),
   Path(<<"X">>, "Doe_1999"),
   Path(<<"X">>, "notes"),
   Path(<<"2001">>, "Lee-2010-entropy"),
   Path(<<"X", "Y", "Z">>, "notes")}

\* list(self.root_path.rglob('*.pdf')): the files of the tree in some order
Listings(tree) ==
  {l \in [1..Cardinality(tree) -> tree] : \A i, j \in 1..Cardinality(tree) : l[i] = l[j] => i = j}

\* pdf.parent.name, the name of root_path for a file of root_path
RootName == "Papers"
parent_name(paper) == IF paper.folder = <<>> THEN RootName ELSE paper.folder[Len(paper.folder)]

\* str.upper() of one character
UpperChar(c) ==
  IF c \in Lowers
  THEN Char(UpperCase, CHOOSE k \in 1..Len(LowerCase) : Char(LowerCase, k) = c)
  ELSE c

\* group 1 of re.search(r'[(\[]?(\d{4})[)\]]?', pdf.stem), None without match
year_in_stem(name) ==
  IF First({i \in 1..Len(name) : FourDigitsAt(name, i)}) = 0 THEN None
  ELSE SubSeq(name, First({i \in 1..Len(name) : FourDigitsAt(name, i)}),
              First({i \in 1..Len(name) : FourDigitsAt(name, i)}) + 3)

\* int(s) of four digits
RECURSIVE IntOf(_)
IntOf(s) ==
  IF s = "" THEN 0
  ELSE 10 * IntOf(SubSeq(s, 1, Len(s) - 1))
       + (CHOOSE d \in 0..9 : Char("0123456789", d + 1) = Char(s, Len(s)))

\* the folder reorganize_by_year plans for paper, None when it plans nothing
year_folder(paper) ==
  IF FourDigitsAt(parent_name(paper), 1) THEN None
  ELSE IF year_in_stem(paper.name) = None THEN None
  ELSE IF StartYear <= IntOf(year_in_stem(paper.name)) /\ IntOf(year_in_stem(paper.name)) <= ThisYear
  THEN <<year_in_stem(paper.name)>>
  ELSE None

RECURSIVE LettersOf(_)
\* re.sub(r'[^a-zA-Z]', '', s)
LettersOf(s) ==
  IF s = "" THEN ""
  ELSE IF Head(s) \in Uppers \cup Lowers THEN Char(s, 1) \o LettersOf(Tail(s))
  ELSE LettersOf(Tail(s))

\* re.split(r'[_\-]', pdf.stem)[0] with everything but letters removed
potential_author(name) == LettersOf(SubSeq(name, 1, RunNotIn(name, 1, {"_", "-"}) - 1))

\* the folder reorganize_by_author plans for paper, None when it plans nothing
author_folder(paper) ==
  IF Len(potential_author(paper.name)) > AuthorMin
  THEN <<"By_Author", UpperChar(Char(potential_author(paper.name), 1)), potential_author(paper.name)>>
  ELSE None

\* any(keyword.lower() in filename_lower for keyword in keywords)
any_keyword(name, keywords) ==
  \E k \in 1..Len(keywords) : Contains(ToLower(name), ToLower(keywords[k]))

\* the folder reorganize_by_keyword plans for paper: the first category of the
\* map one of whose keywords is in the stem, None when there is none
keyword_folder(paper, keyword_map) ==
  IF First({c \in 1..Len(keyword_map) : any_keyword(paper.name, keyword_map[c].keywords)}) = 0
  THEN None
  ELSE <<keyword_map[First({c \in 1..Len(keyword_map) :
                               any_keyword(paper.name, keyword_map[c].keywords)})].folder>>

\* folder_counts[folder] of consolidate_small_folders
folder_count(all_pdfs, folder) ==
  Cardinality({i \in 1..Len(all_pdfs) : all_pdfs[i].folder = folder})

RECURSIVE by_folder(_)
\* the files in the order consolidate_small_folders goes through them: the
\* folders as folder_counts first met them, the files of one folder together
by_folder(all_pdfs) ==
  IF all_pdfs = <<>> THEN <<>>
  ELSE SelectSeq(all_pdfs, LAMBDA f : f.folder = Head(all_pdfs).folder)
       \o by_folder(SelectSeq(all_pdfs, LAMBDA f : f.folder /= Head(all_pdfs).folder))

\* the folder consolidate_small_folders plans for paper, None when it plans
\* nothing
consolidated_folder(paper, all_pdfs) ==
  IF folder_count(all_pdfs, paper.folder) < MinPapers /\ paper.folder /= <<>>
  THEN <<"Other", IF Len(paper.folder) > 1 THEN paper.folder[Len(paper.folder) - 1]
                  ELSE "Miscellaneous">>
  ELSE None

\* the folder flatten_structure plans for paper, None when it plans nothing:
\* '_'.join of the first max_depth folder names, the first of them ''
flat_folder(paper) ==
  IF Len(paper.folder) > MaxDepth
  THEN <<JoinWith(SubSeq(<<"">> \o paper.folder, 1, MaxDepth), "_")>>
  ELSE None

RECURSIVE plan_each(_, _, _)
\* self.moves after the loop of a strategy over sources, target_folders[i]
\* the folder it plans for sources[i]
plan_each(planned, sources, target_folders) ==
  IF sources = <<>> THEN planned
  ELSE plan_each(IF Head(target_folders) = None THEN planned
                 ELSE plan_move(planned, Head(sources), Head(target_folders)),
                 Tail(sources), Tail(target_folders))

reorganize_by_year(planned, all_pdfs) ==
  plan_each(planned, all_pdfs, [i \in 1..Len(all_pdfs) |-> year_folder(all_pdfs[i])])

reorganize_by_author(planned, all_pdfs) ==
  plan_each(planned, all_pdfs, [i \in 1..Len(all_pdfs) |-> author_folder(all_pdfs[i])])

reorganize_by_keyword(planned, all_pdfs, keyword_map) ==
  plan_each(planned, all_pdfs,
            [i \in 1..Len(all_pdfs) |-> keyword_folder(all_pdfs[i], keyword_map)])

consolidate_small_folders(planned, all_pdfs) ==
  plan_each(planned, by_folder(all_pdfs),
            [i \in 1..Len(all_pdfs) |-> consolidated_folder(by_folder(all_pdfs)[i], all_pdfs)])

flatten_structure(planned, all_pdfs) ==
  plan_each(planned, all_pdfs, [i \in 1..Len(all_pdfs) |-> flat_folder(all_pdfs[i])])

\* main has parsed the command line and built the FolderReorganizer
MainInit ==
  /\ PDF_SUPPORT = TRUE /\ REQUESTS_SUPPORT = TRUE
  /\ NoScan
  /\ NoTextCall
  /\ dry_run \in BOOLEAN
  /\ moves = <<>>
  /\ files \in {tree \in SUBSET TreeFiles : Cardinality(tree) <= MaxTree}
  /\ dirs = UNION {Ancestors(f.folder) : f \in files}
  /\ rpc = "suggest"
  /\ answer = None
  /\ move_num = 0 /\ moved_count = 0 /\ error_count = 0
  /\ args \in SUBSET Strategies
  /\ listing \in Listings(files)
  /\ earlier = "none"

\* reorganizer.suggest_reorganization(): max() of no depth raises when no
\* file is in a folder below root_path, and the run ends there
SuggestReorganization ==
  /\ rpc = "suggest"
  /\ rpc' = IF \A f \in files : f.folder = <<>> THEN "done" ELSE "by_year"
  /\ UNCHANGED <<organizer, text_call, command, dry_run, moves, files, dirs, answer,
                 move_num, moved_count, error_count>>

\* if args.by_year: reorganizer.reorganize_by_year()
ReorganizeByYear ==
  /\ rpc = "by_year"
  /\ moves' = IF "by_year" \in args THEN reorganize_by_year(moves, listing) ELSE moves
  /\ rpc' = "by_author"
  /\ UNCHANGED <<organizer, text_call, command, dry_run, files, dirs, answer,
                 move_num, moved_count, error_count>>

\* if args.by_author: reorganizer.reorganize_by_author()
ReorganizeByAuthor ==
  /\ rpc = "by_author"
  /\ moves' = IF "by_author" \in args THEN reorganize_by_author(moves, listing) ELSE moves
  /\ rpc' = "by_keywords"
  /\ UNCHANGED <<organizer, text_call, command, dry_run, files, dirs, answer,
                 move_num, moved_count, error_count>>

\* if args.by_keywords: reorganizer.reorganize_by_keyword(keyword_map)
ReorganizeByKeyword ==
  /\ rpc = "by_keywords"
  /\ moves' = IF "by_keywords" \in args
              THEN reorganize_by_keyword(moves, listing, KeywordMap) ELSE moves
  /\ rpc' = "consolidate"
  /\ UNCHANGED <<organizer, text_call, command, dry_run, files, dirs, answer,
                 move_num, moved_count, error_count>>

\* if args.consolidate: reorganizer.consolidate_small_folders()
ConsolidateSmallFolders ==
  /\ rpc = "consolidate"
  /\ moves' = IF "consolidate" \in args THEN consolidate_small_folders(moves, listing)
              ELSE moves
  /\ rpc' = "flatten"
  /\ UNCHANGED <<organizer, text_call, command, dry_run, files, dirs, answer,
                 move_num, moved_count, error_count>>

\* if args.flatten: reorganizer.flatten_structure()
FlattenStructure ==
  /\ rpc = "flatten"
  /\ moves' = IF "flatten" \in args THEN flatten_structure(moves, listing) ELSE moves
  /\ rpc' = "strategies"
  /\ UNCHANGED <<organizer, text_call, command, dry_run, files, dirs, answer,
                 move_num, moved_count, error_count>>

\* what a run that is over did to the tree
outcome_of_run ==
  IF move_num = 0 THEN "planned"
  ELSE IF error_count = 0 THEN "executed"
  ELSE "executed_with_errors"

\* the same command line is run once more on the tree the first run left
RunAgain ==
  /\ rpc = "done"
  /\ earlier = "none"
  /\ earlier' = outcome_of_run
  /\ listing' \in Listings(files)
  /\ moves' = <<>>
  /\ rpc' = "suggest"
  /\ answer' = None
  /\ move_num' = 0 /\ moved_count' = 0 /\ error_count' = 0
  /\ UNCHANGED <<organizer, text_call, dry_run, files, dirs, args>>

MainNext ==
  \/ SuggestReorganization
  \/ ReorganizeByYear
  \/ ReorganizeByAuthor
  \/ ReorganizeByKeyword
  \/ ConsolidateSmallFolders
  \/ FlattenStructure
  \/ NoMovesPlanned
  \/ DryRunReturn
  \/ Prompt
  \/ Confirm
  \/ PromptRaises
  \/ MoveOne
  \/ RemoveEmptyFolders
  \/ RunAgain

MainSpec == MainInit /\ [][MainNext]_vars

\* ------------------------------------------------------------- properties
\* positions of one document after the registry lookup and before the append
AfterLookup == {"fetched", "embedded", "text", "authors", "year", "filename"}

\* the values the registry lookup can give to each field
RegistryTitles == {RegistryTitle}
RegistryAuthors == {crossref_author([author |-> l], None) : l \in AuthorLists} \ {None}
RegistryYears == {RegistryPrintYear, RegistryOnlineYear, RegistryIssuedYear, RegistryNullYear}
RegistryJournals == {RegistryJournal}
RegistryUrls == {RegistryUrl, RegistryLinkUrl, ""}

StageSet == {stages[i] : i \in 1..Len(stages)}
FinalRecord == pc = "append"

\* one step after the lookup keeps every field that holds a registry value
C1_Step ==
  pc \in AfterLookup =>
    /\ (title \in RegistryTitles => title' = title)
    /\ (author \in RegistryAuthors => author' = author)
    /\ (year \in RegistryYears => year' = year)
    /\ (journal \in RegistryJournals => journal' = journal)
    /\ (url \in RegistryUrls => url' = url)

\* C1: within one document, a field the registry lookup has set (title,
\* author, year, journal, url) is changed by no later stage.
C1_RegistryFieldsKept == [][C1_Step]_vars

\* C2: after a DOI was found and the resolver reported success, neither the
\* embedded metadata nor the text heuristics run: title, journal and url are
\* absent unless the response carried them, and year and author not carried
\* by the response are absent or come from the filename.
C2_SuccessSkipsHeuristics ==
  (fetch_result /\ pc \in {"fetched", "filename", "append"}) =>
    /\ Len(requested) = 1 /\ requested[1] /= None
    /\ StageSet \subseteq {"DoiSearch", "RegistryLookup", "FilenameFallback"}
    /\ ("title" \notin response.provided => title = None)
    /\ ("journal" \notin response.provided => journal = None)
    /\ ("url" \notin response.provided => url = None)
    /\ ("year" \notin response.provided => year \in {None, FilenameYear})
    /\ ("author" \notin response.provided => author \in {None, FilenameAuthor})

\* a response that carried only a title was a success, and the record ends
\* with that title, no journal, no url, and the filename's author and year
C2_Witness ==
  /\ FinalRecord /\ fetch_result
  /\ response.provided = {"title"}
  /\ title = RegistryTitle /\ journal = None /\ url = None
  /\ author = FilenameAuthor /\ year = FilenameYear

\* C3: for a file that is missing or smaller than 1024 bytes nothing but the
\* filename fallback runs: no DOI search, no request, no embedded metadata,
\* no text heuristics; title, journal and url stay absent.
C3_UnavailableOnlyFilename ==
  (filename /= 0 /\ (~file_exists \/ st_size < PlaceholderSize)) =>
    /\ ~is_downloaded
    /\ requested = <<>>
    /\ StageSet \subseteq {"FilenameFallback"}
    /\ title = None /\ journal = None /\ url = None
    /\ year \in {None, FilenameYear}
    /\ author \in {None, FilenameAuthor}

\* a placeholder one byte under the threshold, its record filled from the
\* filename alone
C3_Witness ==
  /\ FinalRecord
  /\ file_exists /\ st_size = PlaceholderSize - 1
  /\ stages = <<"FilenameFallback">>
  /\ author = FilenameAuthor /\ year = FilenameYear /\ title = None

\* C4: a 429 makes the resolver wait once and report failure; the request is
\* not repeated and the pipeline goes on to the embedded metadata and the
\* text heuristics of the same document.
C4_RateLimitFallsThrough ==
  /\ Len(requested) <= 1
  /\ sleeps <= 1
  /\ (response.status = "429") =>
       /\ Len(requested) = 1
       /\ sleeps = 1
       /\ ~fetch_result
       /\ pc \in AfterLookup \cup {"append"}
       /\ \/ pc \in {"fetched", "embedded"}
          \/ (Len(stages) >= 3 /\ stages[3] = "Embedded")

\* after a 429 the heuristics have filled the record
C4_Witness ==
  /\ FinalRecord
  /\ response.status = "429"
  /\ stages = <<"DoiSearch", "RegistryLookup", "Embedded", "TextHeuristics",
                 "FilenameFallback">>
  /\ title = TextTitle1 /\ author = EmbeddedAuthor

\* the resolver's step and its caller's step when the status is not 200
C5_Step ==
  /\ (pc = "lookup" /\ pc' = "fetched" /\ response'.status /= "200") =>
       (~fetch_result' /\ fields' = fields)
  /\ (pc = "fetched" /\ response.status /= "200") =>
       (pc' = "embedded" /\ fields' = fields /\ errors_printed' = errors_printed)

\* C5: on a network exception, a timeout or a status other than 200 the
\* resolver returns failure, changes no field, and the pipeline goes on to
\* the fall back.
C5_TransportFailureSilent == [][C5_Step]_vars

\* the fall back entered after the request raised
C5_Witness ==
  /\ pc = "text"
  /\ response.status = "exc"
  /\ stages = <<"DoiSearch", "RegistryLookup", "Embedded">>
  /\ title = EmbeddedTitle

\* C6: a 200 response with a message whose fields are malformed or missing
\* (an author entry that is no object, date-parts that are no list of lists)
\* is still a success, and the well-formed fields it carries are copied.
C6_MalformedFieldTolerated ==
  (pc = "fetched" /\ response.status = "200" /\ response.message) =>
    /\ fetch_result
    /\ ("title" \in response.provided => title \in RegistryTitles)
    /\ ("author" \in response.provided => author \in RegistryAuthors)
    /\ ("journal" \in response.provided => journal \in RegistryJournals)
    /\ ("url" \in response.provided => url \in RegistryUrls)

\* the fallback's step, a field counting as set when it is not None
C7_Step ==
  pc = "filename" =>
    /\ (year /= None => year' = year)
    /\ (author /= None => author' = author)
    /\ title' = title /\ journal' = journal /\ url' = url

C7_AmendedStep ==
  pc = "filename" =>
    /\ (Truthy(year) => year' = year)
    /\ (Truthy(author) => author' = author)
    /\ title' = title /\ journal' = journal /\ url' = url

FilenameRuns == Cardinality({i \in 1..Len(stages) : stages[i] = "FilenameFallback"})
C8_FilenameRunsOnceLast ==
  /\ FinalRecord => (FilenameRuns = 1 /\ stages[Len(stages)] = "FilenameFallback")
  /\ ~FinalRecord => FilenameRuns = 0

\* the PDF failed to decode during the DOI search, and the fallback ran
C8_Witness ==
  /\ FinalRecord
  /\ errors_printed = 1
  /\ stages = <<"DoiSearch", "FilenameFallback">>
  /\ author = FilenameAuthor

\* the positions of scan_papers in program order, and a measure that grows
\* with every step
Positions ==
  <<"scan", "extract_pdf", "doi_search", "lookup", "fetched", "embedded", "text",
    "authors", "year", "filename", "append">>
Rank(p) == CHOOSE i \in 1..Len(Positions) : Positions[i] = p
Progress(n, p, k) == 100 * n + 4 * Rank(p) + k
InDocument == pc \notin {"scan", "scan_done"}
C9_State ==
  /\ pc \in {Positions[i] : i \in 1..Len(Positions)} \cup {"scan_done"}
  /\ pc /= "scan_done" => ENABLED Next
  /\ pc = "scan_done" => next_file = NumFiles + 1
  /\ InDocument => filename = next_file
  /\ \A i \in 1..Len(papers) :
       /\ papers[i].file < next_file
       /\ i > 1 => papers[i - 1].file < papers[i].file
C9_Step ==
  /\ (InDocument /\ pc' \in {"scan", "scan_done"}) =>
       /\ pc = "append"
       /\ papers' = Append(papers, [file |-> filename, is_downloaded |-> is_downloaded])
       /\ next_file' = next_file + 1
  /\ pc' /= "scan_done" =>
       Progress(next_file', pc', page_num') > Progress(next_file, pc, page_num)

\* C9: no failure in one document stops the scan: every step of a document
\* moves on, its processing ends only with its record appended, and the
\* scan goes on to the next file until the files are exhausted.
C9_ScanNeverAborts == []C9_State /\ [][C9_Step]_vars

\* the scan is over, an error was printed on the way, and every file has its
\* record in the list
C9_Witness ==
  /\ pc = "scan_done"
  /\ errors_printed >= 1
  /\ Len(papers) = NumFiles

\* C10: at most one request per document, and only for a DOI the search
\* found; without a DOI no request is made and the fall back comes next.
C10_LookupOnlyWithDoi ==
  /\ Len(requested) <= 1
  /\ \A i \in 1..Len(requested) : requested[i] \in {DoiOfPage(p) : p \in 0..(DoiPages - 1)}
  /\ ("RegistryLookup" \in StageSet) <=> (requested /= <<>>)
  /\ (pc = "fetched") => requested = <<doi>>
  /\ (doi = None /\ pc \in {"embedded", "text", "authors", "year"}) => requested = <<>>
  /\ (doi = None /\ pc = "embedded") => stages = <<"DoiSearch">>

\* three pages searched, no DOI in them, the requests library present: no
\* request, and the embedded metadata read next
C10_Witness ==
  /\ pc = "text"
  /\ REQUESTS_SUPPORT
  /\ num_pages >= DoiPages /\ page_num = DoiPages
  /\ doi = None
  /\ requested = <<>>
  /\ stages = <<"DoiSearch", "Embedded">>

\* the filename stage for a document from which nothing was recovered
C16_Step ==
  (/\ pc = "filename" /\ is_downloaded
   /\ requested = <<>>
   /\ title = None /\ author = None /\ year = None
   /\ stem' = "Johnson_2015_Entropy") =>
    /\ pc' = "append"
    /\ author' = "Johnson"
    /\ year' = "2015"
    /\ title' = None /\ journal' = None /\ url' = None

\* C16: an available document with no DOI looked up, and neither embedded
\* metadata nor page text giving a title, an author or a year, named
\* Johnson_2015_Entropy.pdf, ends with author "Johnson", year "2015" and no
\* title.
C16_FilenameEndToEnd == [][C16_Step]_vars

\* that document after its three text routines returned nothing on page 1
C16_Witness ==
  /\ FinalRecord /\ is_downloaded
  /\ stem = "Johnson_2015_Entropy"
  /\ stages = <<"DoiSearch", "Embedded", "TextHeuristics", "FilenameFallback">>
  /\ consulted = <<Call("title", 0, None), Call("author", 0, None), Call("year", 0, None)>>
  /\ author = "Johnson" /\ year = "2015" /\ title = None

\* a string of exactly four decimal digits
FourDigits(v) == Len(v) = 4 /\ FourDigitsAt(v, 1)

\* C17: in every final record the year, when present, is a string of exactly
\* four digits.
C17_YearFourDigits == (FinalRecord /\ year /= None) => FourDigits(year)

\* the field a text routine fills
FieldOf(what) ==
  CASE what = "title" -> title
    [] what = "author" -> author
    [] OTHER -> year

\* the calls a step adds to the log
NewCalls == (Len(consulted) + 1)..Len(consulted')

\* what holds of the calls of one step whatever counts as absent
C19_Order ==
  \A i \in NewCalls :
    /\ "Embedded" \in StageSet
    /\ consulted'[i].page \in {0, 1}
    /\ (consulted'[i].what = "year") => consulted'[i].page = 0
    /\ (consulted'[i].page = 1) =>
         /\ i > 1
         /\ consulted'[i - 1] = Call(consulted'[i].what, 0, None)

\* a field counting as absent when it is None
C19_Step ==
  /\ C19_Order
  /\ \A i \in NewCalls : (consulted'[i].page = 0) => FieldOf(consulted'[i].what) = None
  /\ pc \in {"text", "authors", "year"} =>
       /\ (title /= None => title' = title)
       /\ (author /= None => author' = author)
       /\ (year /= None => year' = year)

C19_AmendedStep ==
  /\ C19_Order
  /\ \A i \in NewCalls : (consulted'[i].page = 0) => ~Truthy(FieldOf(consulted'[i].what))
  /\ pc \in {"text", "authors", "year"} =>
       /\ (Truthy(title) => title' = title)
       /\ (Truthy(author) => author' = author)
       /\ (Truthy(year) => year' = year)

C20_DoiSearchOrder ==
  /\ Len(examined) <= DoiPages
  /\ \A i \in 1..Len(examined) :
       /\ examined[i].page = i - 1
       /\ examined[i].page < DoiPages
       /\ examined[i].found \in {None, DoiOfPage(i - 1)}
       /\ i < Len(examined) => examined[i].found = None
  /\ (pc = "doi_search") => (doi = None /\ Len(examined) = page_num)
  /\ (pc \in {"lookup", "fetched"} /\ doi = None) =>
       (Len(examined) = Min(DoiPages, num_pages) /\ requested = <<>>)
  /\ (pc \in {"lookup", "fetched"} /\ doi /= None) =>
       /\ examined /= <<>>
       /\ doi = examined[Len(examined)].found
       /\ doi = DoiOfPage(Len(examined) - 1)
  /\ (pc = "fetched") => requested = <<examined[Len(examined)].found>>

\* a document of more than three pages whose third page gave the DOI that
\* was requested
C20_Witness ==
  /\ pc = "fetched"
  /\ num_pages > DoiPages
  /\ examined = <<[page |-> 0, found |-> None], [page |-> 1, found |-> None],
                  [page |-> 2, found |-> DoiOfPage(2)]>>
  /\ requested = <<DoiOfPage(2)>>

\* positions of the pieces of one form
PiecesOfForm(pieces, form) == {i \in 1..Len(pieces) : pieces[i].form = form}

\* the DOI of the first piece of the first form present, in the order url,
\* label, bare
ExpectedDoi(pieces) ==
  IF PiecesOfForm(pieces, "url") /= {}
  THEN pieces[First(PiecesOfForm(pieces, "url"))].doi
  ELSE IF PiecesOfForm(pieces, "label") /= {}
  THEN pieces[First(PiecesOfForm(pieces, "label"))].doi
  ELSE IF PiecesOfForm(pieces, "bare") /= {}
  THEN pieces[First(PiecesOfForm(pieces, "bare"))].doi
  ELSE None

\* C11: the DOI returned is that of the doi.org/ form when the text has one,
\* else that of the DOI: form, else that of a bare 10.<digits>/ token,
\* whatever the order in the text; within a form, that of its first
\* occurrence.
C11_DoiPriority ==
  (routine = "extract_doi_from_text") => returned = ExpectedDoi(argument.made_of)

\* the three forms with three DOIs, the doi.org/ form last in the text
C11_Witness ==
  /\ routine = "extract_doi_from_text"
  /\ argument.text = "10.1/x, DOI: 10.22/y, https://doi.org/10.333/z"
  /\ returned = "10.333/z"

\* C12: for a text that is one parenthesised group with two dates, such as
\* "(Received 3 Jan 1999; published 22 May 2005)", year extraction returns
\* the last four-digit run of the group.
C12_LastYearOfGroup ==
  (/\ routine = "extract_year_from_text"
   /\ argument.lead = 0
   /\ Len(argument.made_of) = 1
   /\ argument.made_of[1].form = "pair") =>
    returned = argument.made_of[1].last

\* the bare 19xx and 20xx tokens of a text
BareYears(pieces) ==
  {i \in 1..Len(pieces) : pieces[i].form = "bare" /\ pieces[i].last \in {"1999", "2005"}}

\* C13: for a text with no four-digit run in parentheses and a bare 19xx or
\* 20xx token, year extraction returns the last such token; and whatever it
\* returns is a string of four digits whose value is from 1900 to 2100.
C13_BareYearAndRange ==
  (routine = "extract_year_from_text") =>
    /\ (/\ argument.lead = 0
        /\ \A i \in 1..Len(argument.made_of) : argument.made_of[i].form \in {"bare", "word"}
        /\ BareYears(argument.made_of) /= {}) =>
         returned = argument.made_of[Last(BareYears(argument.made_of))].last
    /\ returned /= None =>
         (FourDigits(returned) /\ YearMin <= ToInt(returned) /\ ToInt(returned) <= YearMax)

RECURSIVE AuthorsOf(_)
\* the authors of the pieces of an author line, in their order
AuthorsOf(pieces) ==
  IF pieces = <<>> THEN <<>> ELSE Head(pieces).authors \o AuthorsOf(Tail(pieces))

\* the names of the pieces of an author line, in their order
NamesOf(pieces) ==
  SelectSeq([i \in 1..Len(pieces) |-> pieces[i].names], LAMBDA n : n /= "")

\* C14: the author-line parser removes institutions and numeric superscripts,
\* keeps initials and keeps the order of the names: for
\* "Smith, J.1, Doe, A.2, and University of X" it returns "Smith, J., Doe, A.".
C14_AuthorLineParsed ==
  (/\ routine = "parse_author_line"
   /\ NamesOf(argument.made_of) /= <<>>
   /\ Len(AuthorsOf(argument.made_of)) <= ParsedAuthorCap) =>
    returned = Join(NamesOf(argument.made_of))

\* C15: when line 0 carries an arXiv identifier, title recovery strips the
\* identifier, the bracketed category and the leading date; it returns the
\* remainder, with its blanks made single, if that is 20 to 200 characters
\* long, and otherwise what the multi-line and single-line scans find.
C15_ArxivTitle ==
  (routine = "extract_title_from_text" /\ argument.made_of.id /= "") =>
    IF /\ TitleMin <= Len(argument.made_of.rest.normal)
       /\ Len(argument.made_of.rest.normal) <= TitleMax
    THEN returned = argument.made_of.rest.normal
    ELSE returned = title_from_scans(argument.lines)

C15_Witness ==
  /\ routine = "extract_title_from_text"
  /\ argument.lines =
       <<"arXiv:1234.5678 [cond-mat] 9 Apr 2008 Quantum effects in disordered systems",
         "J. Smith, A. Doe">>
  /\ returned = "Quantum effects in disordered systems"

\* the file system is not what it was
FileSystemChanges == files' /= files \/ dirs' /= dirs

\* C18 as stated: the reorganizer changes the file system only when it was
\* created with dry_run false and the answer to the prompt was "yes".
C18_ChangesOnlyAfterYes ==
  [][FileSystemChanges => (~dry_run /\ answer = "yes")]_vars

\* C18: the reorganizer changes the file system only when it was created
\* with dry_run false and the answer to the prompt was yes in any letter
\* case; in dry-run mode, or on any other answer, execute_moves leaves the
\* file system as it was whatever moves were planned.
C18_ChangesOnlyAfterYesAnyCase ==
  [][FileSystemChanges => (~dry_run /\ ToLower(answer) = "yes")]_vars

C18_Witness ==
  /\ rpc = "done"
  /\ ~dry_run
  /\ answer = "YES"
  /\ moved_count > 0
  /\ Path(<<"2001">>, "a2001") \in files

\* the date fields that carry no usable date-parts or are not there at all
NoDate == {"absent", "noparts"}

\* C21: the year comes from published-print, else published-online, else
\* issued: when published-print is present without usable date-parts and
\* published-online carries a year the record's year is that year, and when
\* neither of the first two carries one and issued does it is the year of
\* issued.
C21_YearFallbackOrder ==
  (/\ routine = "fetch_metadata_from_crossref"
   /\ argument.status = "200" /\ argument.body = "msg"
   /\ returned.ok
   /\ argument.msg.print = "noparts") =>
    /\ argument.msg.online = "year" => returned.year = RegistryOnlineYear
    /\ (argument.msg.online \in NoDate /\ argument.msg.issued = "year") =>
         returned.year = RegistryIssuedYear

\* the entries of a registry author array that have a family name
WithFamily(entries) == SelectSeq(entries, LAMBDA e : e.family /= "")

\* "given family", or "family" alone
Rendered(e) == IF e.given = "" THEN e.family ELSE e.given \o " " \o e.family

\* the first n of a sequence
FirstOf(seq, n) == SubSeq(seq, 1, IF Len(seq) < n THEN Len(seq) ELSE n)

\* the names of a string of names
Named(string) == [i \in 1..Len(Split(string, ",")) |-> Strip(Split(string, ",")[i])]

RECURSIVE InOrder(_, _, _)
\* the names stand in the text one after the other, from position from on
InOrder(names, text, from) ==
  \/ names = <<>>
  \/ /\ First({i \in from..Len(text) : At(text, i, Head(names))}) > 0
     /\ InOrder(Tail(names), text,
                First({i \in from..Len(text) : At(text, i, Head(names))}) + Len(Head(names)))

\* every piece of the line is full names
FullNamesOnly(pieces) ==
  \A i \in 1..Len(pieces) : \A j \in 1..Len(pieces[i].authors) : ~Contains(pieces[i].authors[j], ",")

\* C22: the author string of the registry is the first 6 entries that have a
\* family name, each "given family" or "family" alone, in the order of the
\* array, joined with ", "; the string of the author-line parser names at
\* most 6 authors, in the order of the line, joined with ", ", and for a
\* line of full names they are the first 6 of the line.
C22_AuthorsCappedInOrder ==
  /\ (/\ routine = "fetch_metadata_from_crossref"
      /\ argument.status = "200" /\ argument.body = "msg"
      /\ \A i \in 1..Len(argument.msg.author) : argument.msg.author[i].obj
      /\ WithFamily(argument.msg.author) /= <<>>) =>
       returned.author =
         Join([i \in 1..Len(FirstOf(WithFamily(argument.msg.author), AuthorCap)) |->
                 Rendered(WithFamily(argument.msg.author)[i])])
  /\ (routine = "parse_author_line" /\ returned /= None) =>
       /\ Len(Named(returned)) <= ParsedAuthorCap
       /\ Join(Named(returned)) = returned
       /\ InOrder(Named(returned), argument.text, 1)
  /\ (/\ routine = "parse_author_line"
      /\ FullNamesOnly(argument.made_of)
      /\ AuthorsOf(argument.made_of) /= <<>>) =>
       returned = Join(FirstOf(AuthorsOf(argument.made_of), ParsedAuthorCap))

C22_Witness ==
  /\ routine = "fetch_metadata_from_crossref"
  /\ Len(argument.msg.author) = AuthorCap + 1
  /\ argument.msg.author[1] = Person("", "Turing")
  /\ argument.msg.author[2] = Person("Kurt", "")
  /\ argument.msg.author[AuthorCap + 1] = Person("Ada", "Lovelace")
  /\ returned.author = "Turing, Ada Lovelace, Ada Lovelace, Ada Lovelace, Ada Lovelace, Ada Lovelace"

\* the positions of a run at which the tree is still as the strategies saw it
BeforeMoving == {"suggest", "by_year", "by_author", "by_keywords", "consolidate",
                 "flatten", "strategies", "prompt"}

\* C23: executing the planned moves never overwrites a file: whatever
\* strategies were called, every planned target did not exist when it was
\* planned, no two entries of the move list have the same target, and a move
\* that is carried out finds no file at its target.
C23_NoOverwrite ==
  /\ rpc \in BeforeMoving => \A i \in 1..Len(moves) : ~Exists(moves[i].target)
  /\ \A i, j \in 1..Len(moves) : moves[i].target = moves[j].target => i = j
  /\ (rpc = "moving" /\ move_num <= Len(moves)) => moves[move_num].target \notin files

\* C24: whatever strategies are applied in one run, each file is the source
\* of at most one planned move, and the move the execution is at finds its
\* source in place.
C24_OneMovePerSource ==
  /\ \A i, j \in 1..Len(moves) : moves[i].source = moves[j].source => i = j
  /\ (rpc = "moving" /\ move_num <= Len(moves)) => moves[move_num].source \in files

\* C25: each strategy is idempotent: once the moves one strategy planned
\* have all been carried out, the same strategy run again on the tree that
\* resulted plans no move.
C25_StrategyIdempotent ==
  (earlier = "executed" /\ Cardinality(args) = 1) => moves = <<>>

====
